---------------------------- MODULE Spec2Model ----------------------------
(***************************************************************************)
(* Bandwatch (WaveshareESP32C6LCD): the promiscuous-mode frame counter,    *)
(* the channel-hopping scheduler and the per-channel scoring pipeline of   *)
(* Tamagotchi.cpp, as a state machine.                                     *)
(*                                                                         *)
(* Two execution contexts are modelled, each with its own position:        *)
(*   - the producer: promiscuousCb, invoked by the Wi-Fi driver for every  *)
(*     captured frame (cbPc, cbPkt);                                       *)
(*   - the consumer: Tamagotchi_Init and the LVGL timer callback           *)
(*     uiTimerCb, i.e. ensureWifiMonitor / hopIfNeeded / refreshUi         *)
(*     (uiPc, uiRet).                                                      *)
(* Statements that touch the shared accumulator g_accum are separate       *)
(* steps; the portMUX critical sections are modelled by g_accumMux.        *)
(*                                                                         *)
(* Number representation:                                                  *)
(*   - millis() and dwellStartedMs are uint32_t; they are kept as two      *)
(*     16-bit limbs [hi, lo] so that arithmetic modulo 2^32 is exact;      *)
(*   - uint16_t / uint8_t fields wrap modulo 2^16 / 2^8;                   *)
(*   - float scores are fixed point: one score point is ScoreUnit.         *)
(***************************************************************************)
EXTENDS Integers, Sequences, FiniteSets

----------------------------------------------------------------------------
(* Program constants (src/unnamed/part_000 lines 13-18, 65-73).            *)

kDwellMs == 260

kUiIntervalMs == 120

kChannelCount == 13

kStrongThresholdDbm == -65

kUniqueSlots == 24

\* kBusyEmaAlpha = 0.22f, in hundredths
kBusyEmaAlphaPct == 22

\* sizeof(wifi_ieee80211_mac_hdr_t): 2 + 2 + 6 + 6 + 6 + 2 + 6
MacHdrLen == 30

\* 2^16 and 2^8: the widths of uint16_t and uint8_t, and the limb base of uint32_t
U16 == 65536

U8 == 256

----------------------------------------------------------------------------
(* Bounds of the model (not program constants).                            *)

\* promiscuousCb invocations per run, mixed-traffic specification
MaxCalls == 2

\* clock advances per run, mixed-traffic specification
MaxAdvances == 6

\* promiscuousCb invocations per run, flood specification
FloodCalls == 26

\* clock advances per run, scheduler specification
SchedAdvances == 45

\* clock advances per run that are not exactly kUiIntervalMs
MaxLate == 1

\* finalizes of the channel per run, scoring specification
MaxScoreWindows == 2

\* finalizes of the channel per run, smoothing specification
MaxEmaWindows == 11

\* dwell windows per run, ranking specification
MaxRankWindows == 5

----------------------------------------------------------------------------
(* uint32_t as two 16-bit limbs.                                           *)

U32(hi, lo) == [hi |-> hi, lo |-> lo]

\* a + d modulo 2^32, for 0 <= d < 2^16
Add32(a, d) ==
    LET lo == a.lo + d
    IN  [hi |-> (a.hi + (lo \div U16)) % U16, lo |-> lo % U16]

\* a - b modulo 2^32 (unsigned subtraction)
Sub32(a, b) ==
    LET lo     == a.lo - b.lo
        borrow == IF lo < 0 THEN 1 ELSE 0
    IN  [hi |-> (a.hi - b.hi - borrow) % U16, lo |-> lo % U16]

\* a < k for a uint32 a and a constant 0 <= k < 2^16
Lt32(a, k) == a.hi = 0 /\ a.lo < k

----------------------------------------------------------------------------
(* Frames delivered by the driver: packet type, rx_ctrl.sig_len,           *)
(* rx_ctrl.rssi and the transmitter address addr2.  An address is          *)
(* <<p, b4, b5>>: p stands for bytes 0..3, b4 and b5 are bytes 4 and 5.    *)
(* rx_ctrl.channel is the channel the radio was tuned to when it received  *)
(* the frame (0: no channel-set command had taken effect yet); the         *)
(* callback does not read it.                                              *)

PktTypes == {"MGMT", "CTRL", "DATA", "MISC"}

Pkt(t, l, r, m) ==
    [type |-> t, sig_len |-> l, rssi |-> r, mac |-> m, channel |-> 0]

NoPkt == Pkt("MISC", 0, 0, <<0, 0, 0>>)

macHash(mac) == ((mac[2] * U8) + mac[3]) % U16

\* the two early returns of promiscuousCb
IsCountedType(t) == t \in {"MGMT", "DATA", "CTRL"}

\* mutant: the length check of line 111 is missing
IsValidFrameNoLength(p) == IsCountedType(p.type)

IsValidFrame(p) == IsCountedType(p.type) /\ ~(p.sig_len < MacHdrLen)

\* mutant: a strict comparison with the threshold
IsStrongStrict(p) == p.rssi > kStrongThresholdDbm

IsStrong(p) == p.rssi >= kStrongThresholdDbm

----------------------------------------------------------------------------
(* struct Accum, struct ChannelMetrics, struct ChannelState.               *)

Slots == 0 .. (kUniqueSlots - 1)

Chans == 1 .. kChannelCount

AccumZero ==
    [frames |-> 0, bytes |-> 0, strong |-> 0, unique |-> 0,
     macHashes |-> [i \in Slots |-> 0], macFill |-> 0]

MetricsZero == [frames |-> 0, bytes |-> 0, strong |-> 0, unique |-> 0]

ChannelStateZero ==
    [metrics |-> MetricsZero, busyCurrent |-> 0, busyEma |-> 0, hasData |-> FALSE]

\* the four counters a reader copies out of g_accum
Counters(a) ==
    [frames |-> a.frames, bytes |-> a.bytes, strong |-> a.strong, unique |-> a.unique]

----------------------------------------------------------------------------
(* computeBusyScore in fixed point.  A float in [0,1] is an integer in     *)
(* 0..Unit01; a natural logarithm is an integer number of 1/Unit01; a      *)
(* score in [0,100] is an integer in 0..100*ScoreUnit.                     *)

Unit01 == 10000

ScoreUnit == 100

\* floor(10^4 * ln 2), floor(10^4 * logf(600)), logf(50000), logf(20)
Ln2Fix == 6931

Ln600Fix == 63969

Ln50000Fix == 108198

Ln20Fix == 29957

\* mutant: the upper clamp is missing
clamp01NoUpper(v) == IF v < 0 THEN 0 ELSE v

\* mutant: a value above 1 is rejected as 0
clamp01Reject(v) == IF v < 0 \/ v > Unit01 THEN 0 ELSE v

clamp01(v) == IF v < 0 THEN 0 ELSE IF v > Unit01 THEN Unit01 ELSE v

\* floor(log2 n), for n >= 1
RECURSIVE Log2Floor(_)
Log2Floor(n) == IF n < 2 THEN 0 ELSE 1 + Log2Floor(n \div 2)

Pow2(k) == 2 ^ k

\* 10^4 * ln(n) for an integer n >= 1: n = m * 2^k with 1 <= m < 2, and
\* ln m = 2 * (z + z^3/3 + z^5/5) with z = (m - 1) / (m + 1)
LnFix(n) ==
    LET k   == Log2Floor(n)
        sh  == IF k > 15 THEN k - 15 ELSE 0
        v   == n \div Pow2(sh)
        one == Pow2(k - sh)
        z   == ((v - one) * Unit01) \div (v + one)
        z2  == (z * z) \div Unit01
        z3  == (z2 * z) \div Unit01
        z5  == (z3 * z2) \div Unit01
    IN  (k * Ln2Fix) + (2 * (z + (z3 \div 3) + (z5 \div 5)))

\* log1pf(count / dwellSec), dwellSec = kDwellMs / 1000:
\* 1 + count / 0.26 = (kDwellMs + 1000 * count) / kDwellMs; for a count of
\* millions the 1 is below the resolution and ln(count * 1000 / kDwellMs) is
\* taken term by term, which keeps the integers small
Log1pRate(count) ==
    IF count < 2000000
    THEN LnFix(kDwellMs + (1000 * count)) - LnFix(kDwellMs)
    ELSE (LnFix(count) + LnFix(1000)) - LnFix(kDwellMs)

\* log1pf(x) for an integer x
Log1pInt(x) == LnFix(1 + x)

\* clamp01(num / den) for num >= 0, den > 0
Ratio01(num, den) == IF num >= den THEN Unit01 ELSE (num * Unit01) \div den

strongRatio(m) == IF m.frames > 0 THEN (m.strong * Unit01) \div m.frames ELSE 0

\* strongRatio is not clamped by the code and exceeds 1 when strong > frames;
\* from 5.0 on its term 0.20 * strongRatio alone brings raw to 1.0 or more,
\* which clamp01 cuts to 1.0, so the ratio enters the sum as min(ratio, 5.0)
computeBusyScore(m) ==
    LET ppsScore    == Ratio01(Log1pRate(m.frames), Ln600Fix)
        bpsScore    == Ratio01(Log1pRate(m.bytes), Ln50000Fix)
        uniqueScore == Ratio01(Log1pInt(m.unique), Ln20Fix)
        ratio       == IF strongRatio(m) > 5 * Unit01 THEN 5 * Unit01
                       ELSE strongRatio(m)
        raw         == ((40 * ppsScore) + (30 * bpsScore)
                        + (20 * ratio) + (10 * uniqueScore)) \div 100
    IN  (clamp01(raw) * (100 * ScoreUnit)) \div Unit01

\* mutant: the weights are exchanged, alpha multiplies the old value
EmaBlendSwapped(ema, cur) ==
    ((kBusyEmaAlphaPct * ema) + ((100 - kBusyEmaAlphaPct) * cur)) \div 100

\* mutant: alpha is a tenth of what it should be (0.022)
EmaBlendTenth(ema, cur) ==
    (((1000 - kBusyEmaAlphaPct) * ema) + (kBusyEmaAlphaPct * cur)) \div 1000

\* (1 - alpha) * ema + alpha * cur
EmaBlend(ema, cur) ==
    (((100 - kBusyEmaAlphaPct) * ema) + (kBusyEmaAlphaPct * cur)) \div 100

\* mutant: the first finalize blends with the initial 0 like every other
FinalizedAlwaysBlend(ch, snapshot) ==
    LET cur == computeBusyScore(snapshot)
    IN  [metrics     |-> snapshot,
         busyCurrent |-> cur,
         busyEma     |-> EmaBlend(ch.busyEma, cur),
         hasData     |-> TRUE]

\* mutant: the counters are smoothed too, moved half way to the new snapshot
FinalizedSmoothedCounters(ch, snapshot) ==
    LET cur == computeBusyScore(snapshot)
        mid(a, b) == IF ch.hasData THEN a + ((b - a) \div 2) ELSE b
    IN  [metrics     |-> [frames |-> mid(ch.metrics.frames, snapshot.frames),
                          bytes  |-> mid(ch.metrics.bytes, snapshot.bytes),
                          strong |-> mid(ch.metrics.strong, snapshot.strong),
                          unique |-> mid(ch.metrics.unique, snapshot.unique)],
         busyCurrent |-> cur,
         busyEma     |-> IF ~ch.hasData THEN cur ELSE EmaBlend(ch.busyEma, cur),
         hasData     |-> TRUE]

\* the ChannelState finishDwell leaves in a slot
Finalized(ch, snapshot) ==
    LET cur == computeBusyScore(snapshot)
    IN  [metrics     |-> snapshot,
         busyCurrent |-> cur,
         busyEma     |-> IF ~ch.hasData THEN cur ELSE EmaBlend(ch.busyEma, cur),
         hasData     |-> TRUE]

----------------------------------------------------------------------------
(* globalActivityMax and sortTop3 over ChannelState channels[1..N]         *)
(* (index i of the code is channel i + 1; -1 is kept for "no entry").      *)

RECURSIVE MaxFrom(_, _, _)
MaxFrom(chs, i, maxVal) ==
    IF i > kChannelCount THEN maxVal
    ELSE MaxFrom(chs, i + 1,
                 IF chs[i].hasData /\ chs[i].busyEma > maxVal
                 THEN chs[i].busyEma ELSE maxVal)

\* mutant: the loop starts at index 1 and misses channel 1
globalActivityMaxSkipFirst(chs) == MaxFrom(chs, 2, 0)

globalActivityMax(chs) == MaxFrom(chs, 1, 0)

\* mutant: >= instead of >, a tie moves the later channel ahead
RECURSIVE InsertPosGeq(_, _, _, _)
InsertPosGeq(chs, out, i, pos) ==
    IF pos > 3 THEN 0
    ELSE IF out[pos] = -1 \/ chs[i + 1].busyEma >= chs[out[pos] + 1].busyEma
         THEN pos
         ELSE InsertPosGeq(chs, out, i, pos + 1)

\* mutant: < instead of >, the list is sorted ascending
RECURSIVE InsertPosAscending(_, _, _, _)
InsertPosAscending(chs, out, i, pos) ==
    IF pos > 3 THEN 0
    ELSE IF out[pos] = -1 \/ chs[i + 1].busyEma < chs[out[pos] + 1].busyEma
         THEN pos
         ELSE InsertPosAscending(chs, out, i, pos + 1)

\* first position pos in 1..3 where channel index i is inserted, 0 if none
RECURSIVE InsertPos(_, _, _, _)
InsertPos(chs, out, i, pos) ==
    IF pos > 3 THEN 0
    ELSE IF out[pos] = -1 \/ chs[i + 1].busyEma > chs[out[pos] + 1].busyEma
         THEN pos
         ELSE InsertPos(chs, out, i, pos + 1)

\* mutant: the entry is overwritten, the entries below are not shifted down
InsertAtNoShift(out, pos, i) ==
    [q \in 1 .. 3 |-> IF q = pos THEN i ELSE out[q]]

InsertAt(out, pos, i) ==
    [q \in 1 .. 3 |-> IF q < pos THEN out[q] ELSE IF q = pos THEN i ELSE out[q - 1]]

\* mutant: channels without data are not skipped
RECURSIVE SortFromNoDataCheck(_, _, _)
SortFromNoDataCheck(chs, i, out) ==
    IF i >= kChannelCount THEN out
    ELSE LET pos == InsertPos(chs, out, i, 1)
         IN  SortFromNoDataCheck(chs, i + 1,
                                 IF pos = 0 THEN out ELSE InsertAt(out, pos, i))

RECURSIVE SortFrom(_, _, _)
SortFrom(chs, i, out) ==
    IF i >= kChannelCount THEN out
    ELSE IF ~chs[i + 1].hasData THEN SortFrom(chs, i + 1, out)
    ELSE LET pos == InsertPos(chs, out, i, 1)
         IN  SortFrom(chs, i + 1, IF pos = 0 THEN out ELSE InsertAt(out, pos, i))

\* mutant: the first three channels with data, in channel order
sortTop3FirstThree(chs) ==
    LET S == {c \in Chans : chs[c].hasData}
        before(c) == Cardinality({d \in S : d < c})
    IN  [q \in 1 .. 3 |->
            IF \E c \in S : before(c) = q - 1
            THEN (CHOOSE c \in S : before(c) = q - 1) - 1
            ELSE -1]

sortTop3(chs) == SortFrom(chs, 0, <<-1, -1, -1>>)

----------------------------------------------------------------------------
(* State.                                                                  *)

VARIABLES
    g_accum,          \* volatile Accum g_accum
    g_accumMux,       \* portMUX_TYPE g_accumMux: "free", or its holder "cb" / "ui"
    channels,         \* ChannelState channels[kChannelCount], indexed 1..N
    currentChannel,   \* int currentChannel
    dwellStartedMs,   \* uint32_t dwellStartedMs
    started,          \* static bool started of ensureWifiMonitor
    promiscuous,      \* esp_wifi_set_promiscuous(true) was called, callback registered
    radioChannel,     \* the channel the radio is tuned to (0: never set)
    timerArmed,       \* lv_timer_create(uiTimerCb, kUiIntervalMs) was called
    now,              \* millis(), uint32_t
    uiPc,             \* position of the consumer (Tamagotchi_Init / uiTimerCb)
    uiRet,            \* its continuation: the positions to resume at on return
    snap,             \* ChannelMetrics snap of finishDwell
    live,             \* Accum live of refreshUi (the four counters read)
    disp,             \* what refreshUi last put on the screen
    cbPc,             \* position of the producer (promiscuousCb)
    cbPkt,            \* the frame promiscuousCb was last invoked with
    \* history variables (not program state)
    cbCalls,          \* number of promiscuousCb invocations so far
    cbEntry,          \* g_accum when the running callback entered its critical section
    gWindow,          \* bag of the frames recorded since the last reset of g_accum
    gSnapWindow,      \* gWindow when finishDwell entered its critical section
    sinceDwell,       \* true milliseconds elapsed since dwellStartedMs was set
    sinceTick,        \* milliseconds elapsed since the LVGL timer last ran
    nAdv,             \* number of clock advances so far
    nLate,            \* number of them that were not exactly kUiIntervalMs
    lastFinal,        \* channel of the last finishDwell (0: none yet)
    sweepMs,          \* sum of the switch-timestamp deltas of the running sweep
    lastSweepMs,      \* that sum for the last completed sweep (0: none yet)
    faultLog,         \* the faults the core has logged or handed to its owner
    emaHist           \* per channel: finalizes so far, and the current run of
                      \* equal raw scores (its length, the smoothed value before it)

prodVars == <<cbPc, cbPkt, cbCalls, cbEntry>>

accVars == <<g_accum, g_accumMux, gWindow>>

uiCtl == <<uiPc, uiRet>>

uiLocals == <<snap, live, disp, gSnapWindow>>

setupVars == <<started, promiscuous, timerArmed>>

schedVars == <<currentChannel, dwellStartedMs, radioChannel, sinceDwell,
               lastFinal, sweepMs, lastSweepMs, faultLog>>

chanVars == <<channels, emaHist>>

clockVars == <<now, sinceTick, nAdv, nLate>>

vars == <<g_accum, g_accumMux, channels, currentChannel, dwellStartedMs, started,
          promiscuous, radioChannel, timerArmed, now, uiPc, uiRet, snap, live, disp,
          cbPc, cbPkt, cbCalls, cbEntry, gWindow, gSnapWindow, sinceDwell, sinceTick,
          nAdv, nLate, lastFinal, sweepMs, lastSweepMs, faultLog, emaHist>>

----------------------------------------------------------------------------
(* BleWatch (src/blewatch/blewatch.cpp): the second program of the          *)
(* repository, a BLE proximity meter.  It shares nothing with Bandwatch but *)
(* millis(); its state is kept in variables of its own, which no Bandwatch  *)
(* action touches.  Names that both programs use (kUiIntervalMs, clamp01,   *)
(* uiTimerCb) carry the prefix Ble here.                                    *)

kBleUiIntervalMs == 40

\* seconds of one scan cycle of bleTask
kBleScanDurationS == 1

kDeviceStaleMs == 3500

kFarRssiDbm == -80

kNearStartRssiDbm == -67

kCloseStartRssiDbm == -50

kVeryCloseRssiDbm == -40

kVulnCheckDwellMs == 3000

kStickyRssiMarginDb == 10

kBlinkDurationMs == 600

\* the level best, stickyRssi and DeviceSlot::lastRssi start from
kNoRssi == -127

\* at or below this level the RSSI label shows "--"
kRssiShownAbove == -120

\* the on/off period of the safe blink and the length of its lit part
kBlinkPeriodMs == 200

kBlinkOnMs == 100

\* the bar value where NEAR ends and CLOSE begins, and the full bar
kNearBarSpan == 70

kCloseBarSpan == 30

\* slots of the device table (kMaxDevices is 64; the table is only ever
\* filled, so its size matters once more devices than slots were seen)
BleSlots == 2

\* kVulnerableOuis: the first three bytes of the flagged vendors' addresses
kVulnerableOuis ==
    {<<0, 26, 125>>, <<0, 2, 114>>, <<0, 37, 219>>, <<156, 140, 216>>,
     <<0, 38, 232>>, <<0, 3, 122>>, <<208, 95, 184>>, <<52, 177, 247>>,
     <<0, 16, 24>>, <<172, 55, 67>>, <<140, 245, 163>>, <<120, 215, 95>>}

\* an address is its six bytes
MacZero == <<0, 0, 0, 0, 0, 0>>

\* a device of a vendor that is not flagged and a Broadcom device (34:B1:F7)
MacSafeA == <<36, 10, 196, 1, 2, 3>>

MacBroadcom == <<52, 177, 247, 9, 9, 9>>

\* the devices in range
BleMacs == {MacSafeA, MacBroadcom}

\* lines 106-115
isOuiPotentiallyVulnerable(mac) ==
    \E i \in kVulnerableOuis : mac[1] = i[1] /\ mac[2] = i[2] /\ mac[3] = i[3]

\* DeviceSlot, lines 53-59 (the name is not modelled: it only selects the
\* text of the name label, which shows the address otherwise)
DeviceSlotZero ==
    [mac |-> MacZero, lastSeenMs |-> U32(0, 0), lastRssi |-> kNoRssi, used |-> FALSE]

\* what buildUi puts on the screen, and the LED after g_rgb.clear()
BleUiBuilt ==
    [count |-> 0, rssi |-> "--", state |-> "FAR", nameHidden |-> TRUE,
     nameText |-> MacZero, nameColor |-> "cyan", bar |-> 0, led |-> "OFF"]

VARIABLES
    g_devices,            \* DeviceSlot g_devices[kMaxDevices], indexed 1..BleSlots
    g_bestRssi,           \* volatile int g_bestRssi
    g_lastAnySeenMs,      \* volatile uint32_t g_lastAnySeenMs
    g_veryCloseMac,       \* uint8_t g_veryCloseMac[6]
    g_veryCloseStartMs,   \* uint32_t g_veryCloseStartMs
    g_safeBlinkTriggered, \* bool g_safeBlinkTriggered
    g_safeBlinkStartMs,   \* uint32_t g_safeBlinkStartMs
    bleNow,               \* millis(), uint32_t
    bleTimer,             \* the LVGL timer of uiTimerCb: "off", "wait" or "due"
    bleUi,                \* the labels, the bar and the LED as last set
    countNowMs,           \* nowMs of countActiveDevicesAndBest (line 203)
    \* history variables (not program state)
    bleTicks,             \* clock advances so far
    bleSeenNow,           \* the addresses reported since the clock last moved
    vcMac,                \* the device the last update showed as VERY CLOSE
    vcRunMs,              \* for how long every update has shown it so (capped)
    lockSteady,           \* every update since the lock-on showed VERY CLOSE
    blinkOnsets,          \* times the LED went steady green since the lock-on
    bleHeard              \* per address heard: ms since its last sighting (capped)

bleProg == <<g_devices, g_bestRssi, g_lastAnySeenMs, g_veryCloseMac,
             g_veryCloseStartMs, g_safeBlinkTriggered, g_safeBlinkStartMs,
             bleNow, bleTimer, bleUi, countNowMs>>

bleHist == <<bleTicks, bleSeenNow, vcMac, vcRunMs, lockSteady, blinkOnsets,
             bleHeard>>

bleVars == <<bleProg, bleHist>>

allVars == <<vars, bleVars>>

\* no address was heard yet
HeardNone == [m \in {} |-> 0]

\* static initialisation of blewatch.cpp, before Blewatch_Init runs
BleStatic ==
    /\ g_devices = [i \in 1..BleSlots |-> DeviceSlotZero]
    /\ g_bestRssi = kNoRssi
    /\ g_lastAnySeenMs = U32(0, 0)
    /\ g_veryCloseMac = MacZero
    /\ g_veryCloseStartMs = U32(0, 0)
    /\ g_safeBlinkTriggered = FALSE
    /\ g_safeBlinkStartMs = U32(0, 0)
    /\ bleNow = U32(0, 0)
    /\ bleTimer = "off"
    /\ bleUi = BleUiBuilt
    /\ bleTicks = 0
    /\ bleSeenNow = {}
    /\ vcMac = MacZero
    /\ vcRunMs = 0
    /\ lockSteady = FALSE
    /\ blinkOnsets = 0
    /\ countNowMs = U32(0, 0)
    /\ bleHeard = HeardNone

----------------------------------------------------------------------------
(* Bags of frames (history).                                               *)

EmptyWindow == [q \in {} |-> 0]

WindowAdd(w, p) ==
    [q \in (DOMAIN w) \cup {p} |->
        IF q = p THEN (IF p \in DOMAIN w THEN w[p] + 1 ELSE 1) ELSE w[q]]

\* sum over the frames q of S of (copies of q) * wt[q]
RECURSIVE WindowSum(_, _, _)
WindowSum(w, S, wt) ==
    IF S = {} THEN 0
    ELSE LET q == CHOOSE x \in S : TRUE
         IN  (w[q] * wt[q]) + WindowSum(w, S \ {q}, wt)

WindowFrames(w) == WindowSum(w, DOMAIN w, [q \in DOMAIN w |-> 1])

WindowBytes(w) == WindowSum(w, DOMAIN w, [q \in DOMAIN w |-> q.sig_len])

WindowStrong(w) ==
    WindowSum(w, DOMAIN w,
              [q \in DOMAIN w |-> IF q.rssi >= kStrongThresholdDbm THEN 1 ELSE 0])

WindowSources(w) == {q.mac : q \in DOMAIN w}

----------------------------------------------------------------------------
(* Initial state: static initialisation, before Tamagotchi_Init runs.      *)
(* millis() at that moment is an input (boot).                             *)

\* history of a channel that was never finalized
EmaHistZero == [n |-> 0, run |-> 0, start |-> 0]

InitAt(boot) ==
    /\ g_accum = AccumZero
    /\ g_accumMux = "free"
    /\ channels = [c \in Chans |-> ChannelStateZero]
    /\ currentChannel = 1
    /\ dwellStartedMs = U32(0, 0)
    /\ started = FALSE
    /\ promiscuous = FALSE
    /\ radioChannel = 0
    /\ timerArmed = FALSE
    /\ now \in boot
    /\ uiPc = "boot"
    /\ uiRet = <<>>
    /\ snap = MetricsZero
    /\ live = MetricsZero
    /\ disp = [global |-> 0, top |-> <<-1, -1, -1>>, active |-> 0,
               pkt |-> 0, bytes |-> 0]
    /\ cbPc = "idle"
    /\ cbPkt = NoPkt
    /\ cbCalls = 0
    /\ cbEntry = AccumZero
    /\ gWindow = EmptyWindow
    /\ gSnapWindow = EmptyWindow
    /\ sinceDwell = 0
    /\ sinceTick = 0
    /\ nAdv = 0
    /\ nLate = 0
    /\ lastFinal = 0
    /\ sweepMs = 0
    /\ lastSweepMs = 0
    /\ faultLog = <<>>
    /\ emaHist = [c \in Chans |-> EmaHistZero]
    /\ BleStatic

----------------------------------------------------------------------------
(* Producer: promiscuousCb(buf, type).                                     *)

\* lines 108-112: the driver invokes the callback with one frame of pkts; an
\* uncounted type or a frame shorter than the MAC header returns at once.
Receive(pkts, maxCalls) ==
    /\ promiscuous
    /\ cbPc = "idle"
    /\ cbCalls < maxCalls
    /\ \E p \in pkts :
          /\ cbPkt' = [p EXCEPT !.channel = radioChannel]
          /\ cbPc' = IF IsValidFrame(p) THEN "cb_enter" ELSE "idle"
    /\ cbCalls' = cbCalls + 1
    /\ UNCHANGED <<cbEntry, accVars, chanVars, uiCtl, uiLocals, setupVars, bleVars,
                   schedVars, clockVars>>

\* mutant: the callback writes without taking the lock
CbEnterUnlocked ==
    /\ cbPc = "cb_enter"
    /\ cbPc' = "cb_frames"
    /\ cbEntry' = g_accum
    /\ gWindow' = WindowAdd(gWindow, cbPkt)
    /\ UNCHANGED <<g_accum, g_accumMux, cbPkt, cbCalls, chanVars, uiCtl, uiLocals,
                   setupVars, bleVars, schedVars, clockVars>>

\* line 114: portENTER_CRITICAL_ISR(&g_accumMux)
CbEnter ==
    /\ cbPc = "cb_enter"
    /\ g_accumMux = "free"
    /\ g_accumMux' = "cb"
    /\ cbPc' = "cb_frames"
    /\ cbEntry' = g_accum
    /\ gWindow' = WindowAdd(gWindow, cbPkt)
    /\ UNCHANGED <<g_accum, cbPkt, cbCalls, chanVars, uiCtl, uiLocals, setupVars, bleVars,
                   schedVars, clockVars>>

\* the callback's writes leave everything but g_accum and its own position alone
CbWrite(next, acc) ==
    /\ g_accum' = acc
    /\ cbPc' = next
    /\ UNCHANGED <<g_accumMux, gWindow, cbPkt, cbCalls, cbEntry, chanVars, uiCtl,
                   uiLocals, setupVars, bleVars, schedVars, clockVars>>

\* line 115: g_accum.frames += 1
CbFrames ==
    /\ cbPc = "cb_frames"
    /\ CbWrite("cb_bytes", [g_accum EXCEPT !.frames = @ + 1])

\* line 116: g_accum.bytes += pkt->rx_ctrl.sig_len
CbBytes ==
    /\ cbPc = "cb_bytes"
    /\ CbWrite("cb_strong", [g_accum EXCEPT !.bytes = @ + cbPkt.sig_len])

\* lines 117-119: if (rssi >= kStrongThresholdDbm) g_accum.strong += 1
CbStrong ==
    /\ cbPc = "cb_strong"
    /\ CbWrite("cb_dedup",
               IF IsStrong(cbPkt)
               THEN [g_accum EXCEPT !.strong = (@ + 1) % U16]
               ELSE g_accum)

\* mutant: the scan finds nothing
KnownNever(acc, h) == FALSE

\* mutant: the scan runs over all kUniqueSlots slots, filled or not
KnownAnySlot(acc, h) == \E i \in Slots : acc.macHashes[i] = h

\* lines 124-130: the scan of macHashes[0 .. macFill-1]
Known(acc, h) == \E i \in Slots : i < acc.macFill /\ acc.macHashes[i] = h

\* mutant: the capacity test is off by one
DedupOffByOne(acc, h) ==
    IF ~Known(acc, h) /\ acc.macFill <= kUniqueSlots
    THEN [acc EXCEPT !.macHashes = [i \in (DOMAIN @) \cup {acc.macFill} |->
                                      IF i = acc.macFill THEN h ELSE @[i]],
                     !.macFill = (@ + 1) % U8,
                     !.unique = (@ + 1) % U16]
    ELSE acc

\* lines 131-134: insert when unknown and a slot is left
Dedup(acc, h) ==
    IF ~Known(acc, h) /\ acc.macFill < kUniqueSlots
    THEN [acc EXCEPT !.macHashes[acc.macFill] = h,
                     !.macFill = (@ + 1) % U8,
                     !.unique = (@ + 1) % U16]
    ELSE acc

\* lines 121-135
CbDedup ==
    /\ cbPc = "cb_dedup"
    /\ CbWrite("cb_exit", Dedup(g_accum, macHash(cbPkt.mac)))

\* line 136: portEXIT_CRITICAL_ISR(&g_accumMux), and return
CbExit ==
    /\ cbPc = "cb_exit"
    /\ g_accumMux' = "free"
    /\ cbPc' = "idle"
    /\ UNCHANGED <<g_accum, gWindow, cbPkt, cbCalls, cbEntry, chanVars, uiCtl,
                   uiLocals, setupVars, bleVars, schedVars, clockVars>>

----------------------------------------------------------------------------
(* Consumer: Tamagotchi_Init, uiTimerCb and the functions they call.       *)

\* return from the running function: resume at the head of the continuation
UiReturn ==
    /\ uiPc' = Head(uiRet)
    /\ uiRet' = Tail(uiRet)

\* lines 410-414: buildUi(); lv_timer_create(uiTimerCb, kUiIntervalMs, nullptr);
\* then ensureWifiMonitor(); refreshUi();
TamagotchiInit ==
    /\ uiPc = "boot"
    /\ timerArmed' = TRUE
    /\ sinceTick' = 0
    /\ uiPc' = "ew_check"
    /\ uiRet' = <<"rf_rank", "idle">>
    /\ UNCHANGED <<started, promiscuous, now, nAdv, nLate, prodVars, accVars,
                   chanVars, uiLocals, schedVars, bleVars>>

\* lines 401-406: the LVGL timer runs uiTimerCb once its period has elapsed:
\* ensureWifiMonitor(); hopIfNeeded(); refreshUi();
uiTimerCb ==
    /\ uiPc = "idle"
    /\ timerArmed
    /\ sinceTick >= kUiIntervalMs
    /\ sinceTick' = 0
    /\ uiPc' = "ew_check"
    /\ uiRet' = <<"hop_check", "rf_rank", "idle">>
    /\ UNCHANGED <<setupVars, bleVars, now, nAdv, nLate, prodVars, accVars, chanVars,
                   uiLocals, schedVars>>

\* mutant: the started flag is not looked at
EwCheckEveryCall ==
    /\ uiPc = "ew_check"
    /\ started' = TRUE
    /\ promiscuous' = TRUE
    /\ uiPc' = "ew_chan"
    /\ UNCHANGED uiRet
    /\ UNCHANGED <<bleVars, timerArmed, prodVars, accVars, chanVars, uiLocals, schedVars,
                   clockVars>>

\* lines 157-180: ensureWifiMonitor up to esp_wifi_set_promiscuous(true)
EwCheck ==
    /\ uiPc = "ew_check"
    /\ IF started
       THEN /\ UiReturn
            /\ UNCHANGED <<started, promiscuous>>
       ELSE /\ started' = TRUE
            /\ promiscuous' = TRUE
            /\ uiPc' = "ew_chan"
            /\ UNCHANGED uiRet
    /\ UNCHANGED <<bleVars, timerArmed, prodVars, accVars, chanVars, uiLocals, schedVars,
                   clockVars>>

\* lines 182-184: currentChannel = 1; resetAccum(); applyChannel(currentChannel);
EwChan ==
    /\ uiPc = "ew_chan"
    /\ currentChannel' = 1
    /\ uiPc' = "ra_enter"
    /\ uiRet' = <<"ac_set">> \o uiRet
    /\ UNCHANGED <<dwellStartedMs, radioChannel, sinceDwell, lastFinal, sweepMs,
                   lastSweepMs, faultLog, setupVars, bleVars, prodVars, accVars, chanVars, uiLocals,
                   clockVars>>

\* line 140: portENTER_CRITICAL(&g_accumMux) in resetAccum
RaEnter ==
    /\ uiPc = "ra_enter"
    /\ g_accumMux = "free"
    /\ g_accumMux' = "ui"
    /\ uiPc' = "ra_frames"
    /\ UNCHANGED <<g_accum, gWindow, uiRet, setupVars, bleVars, prodVars, chanVars, uiLocals,
                   schedVars, clockVars>>

\* one write of resetAccum to g_accum
RaWrite(next, acc) ==
    /\ g_accum' = acc
    /\ uiPc' = next
    /\ UNCHANGED <<g_accumMux, gWindow, uiRet, setupVars, bleVars, prodVars, chanVars,
                   uiLocals, schedVars, clockVars>>

\* line 141
RaFrames ==
    /\ uiPc = "ra_frames"
    /\ RaWrite("ra_bytes", [g_accum EXCEPT !.frames = 0])

\* line 142
RaBytes ==
    /\ uiPc = "ra_bytes"
    /\ RaWrite("ra_strong", [g_accum EXCEPT !.bytes = 0])

\* line 143
RaStrong ==
    /\ uiPc = "ra_strong"
    /\ RaWrite("ra_unique", [g_accum EXCEPT !.strong = 0])

\* line 144
RaUnique ==
    /\ uiPc = "ra_unique"
    /\ RaWrite("ra_fill", [g_accum EXCEPT !.unique = 0])

\* line 145
RaFill ==
    /\ uiPc = "ra_fill"
    /\ RaWrite("ra_hashes", [g_accum EXCEPT !.macFill = 0])

\* lines 146-148
RaHashes ==
    /\ uiPc = "ra_hashes"
    /\ RaWrite("ra_exit", [g_accum EXCEPT !.macHashes = [i \in Slots |-> 0]])

\* line 149: portEXIT_CRITICAL(&g_accumMux), and return
RaExit ==
    /\ uiPc = "ra_exit"
    /\ g_accumMux' = "free"
    /\ gWindow' = EmptyWindow
    /\ UiReturn
    /\ UNCHANGED <<g_accum, setupVars, bleVars, prodVars, chanVars, uiLocals,
                   schedVars, clockVars>>

\* a uint32 that is known to be small, as a number
ToNat(a) == (a.hi * U16) + a.lo

\* mutant: the dwell timer is restarted only when the channel-set command succeeded
applyChannelHaltOnFailure ==
    /\ uiPc = "ac_set"
    /\ \E ok \in BOOLEAN :
          /\ radioChannel' = IF ok THEN currentChannel ELSE radioChannel
          /\ dwellStartedMs' = IF ok THEN now ELSE dwellStartedMs
    /\ sinceDwell' = 0
    /\ UNCHANGED <<sweepMs, lastSweepMs>>
    /\ UiReturn
    /\ UNCHANGED <<currentChannel, lastFinal, faultLog, setupVars, bleVars, prodVars,
                   accVars, chanVars, uiLocals, clockVars>>

\* mutant: the result is checked as by ESP_ERROR_CHECK, a failed command
\* aborts the program
applyChannelAbortOnFailure ==
    /\ uiPc = "ac_set"
    /\ \E ok \in BOOLEAN :
          IF ok
          THEN /\ radioChannel' = currentChannel
               /\ dwellStartedMs' = now
               /\ sinceDwell' = 0
               /\ UiReturn
          ELSE /\ uiPc' = "aborted"
               /\ UNCHANGED <<radioChannel, dwellStartedMs, sinceDwell, uiRet>>
    /\ UNCHANGED <<sweepMs, lastSweepMs>>
    /\ UNCHANGED <<currentChannel, lastFinal, faultLog, setupVars, bleVars, prodVars,
                   accVars, chanVars, uiLocals, clockVars>>

\* lines 152-155: esp_wifi_set_channel(ch, ...) succeeds or fails (its result is
\* not looked at); dwellStartedMs = millis().  History: the delta between this
\* switch timestamp and the previous one is added to the sweep's sum, which is
\* closed when the switch is to channel 1.
applyChannel ==
    /\ uiPc = "ac_set"
    /\ \E ok \in BOOLEAN :
          radioChannel' = IF ok THEN currentChannel ELSE radioChannel
    /\ dwellStartedMs' = now
    /\ sinceDwell' = 0
    /\ IF lastFinal = 0
       THEN UNCHANGED <<sweepMs, lastSweepMs>>
       ELSE LET sum == sweepMs + ToNat(Sub32(now, dwellStartedMs))
            IN  IF currentChannel = 1
                THEN lastSweepMs' = sum /\ sweepMs' = 0
                ELSE sweepMs' = sum /\ UNCHANGED lastSweepMs
    /\ UiReturn
    /\ UNCHANGED <<currentChannel, lastFinal, faultLog, setupVars, bleVars, prodVars,
                   accVars, chanVars, uiLocals, clockVars>>

\* line 224: now - dwellStartedMs, in uint32_t
DwellElapsed(t, start) == Sub32(t, start)

\* mutant: now >= dwellStartedMs + kDwellMs, which is not wraparound-safe
DwellDueDeadline(t, start) ==
    LET e == Add32(start, kDwellMs)
    IN  t.hi > e.hi \/ (t.hi = e.hi /\ t.lo >= e.lo)

\* mutant: the test is inverted, the hop is taken while the dwell is running
DwellDueInverted(t, start) == Lt32(DwellElapsed(t, start), kDwellMs)

DwellDue(t, start) == ~Lt32(DwellElapsed(t, start), kDwellMs)

\* lines 222-227: hopIfNeeded reads millis() and returns unless the dwell is over
HopCheck ==
    /\ uiPc = "hop_check"
    /\ IF DwellDue(now, dwellStartedMs)
       THEN /\ uiPc' = "fd_enter"
            /\ uiRet' = <<"ra_enter", "hop_next">> \o uiRet
       ELSE UiReturn
    /\ UNCHANGED <<setupVars, bleVars, prodVars, accVars, chanVars, uiLocals, schedVars,
                   clockVars>>

\* mutant: finishDwell reads g_accum without entering the critical section
FdEnterUnlocked ==
    /\ uiPc = "fd_enter"
    /\ snap' = MetricsZero
    /\ gSnapWindow' = gWindow
    /\ uiPc' = "fd_frames"
    /\ UNCHANGED <<accVars, live, disp, uiRet, setupVars, bleVars, prodVars,
                   chanVars, schedVars, clockVars>>

\* lines 203-204: ChannelMetrics snap{}; portENTER_CRITICAL(&g_accumMux)
FdEnter ==
    /\ uiPc = "fd_enter"
    /\ g_accumMux = "free"
    /\ g_accumMux' = "ui"
    /\ snap' = MetricsZero
    /\ gSnapWindow' = gWindow
    /\ uiPc' = "fd_frames"
    /\ UNCHANGED <<g_accum, gWindow, live, disp, uiRet, setupVars, bleVars, prodVars,
                   chanVars, schedVars, clockVars>>

\* one read of finishDwell from g_accum into snap
FdRead(next, s) ==
    /\ snap' = s
    /\ uiPc' = next
    /\ UNCHANGED <<accVars, live, disp, gSnapWindow, uiRet, setupVars, bleVars, prodVars,
                   chanVars, schedVars, clockVars>>

\* line 205
FdFrames ==
    /\ uiPc = "fd_frames"
    /\ FdRead("fd_bytes", [snap EXCEPT !.frames = g_accum.frames])

\* line 206
FdBytes ==
    /\ uiPc = "fd_bytes"
    /\ FdRead("fd_strong", [snap EXCEPT !.bytes = g_accum.bytes])

\* line 207
FdStrong ==
    /\ uiPc = "fd_strong"
    /\ FdRead("fd_unique", [snap EXCEPT !.strong = g_accum.strong])

\* line 208
FdUnique ==
    /\ uiPc = "fd_unique"
    /\ FdRead("fd_exit", [snap EXCEPT !.unique = g_accum.unique])

\* line 209: portEXIT_CRITICAL(&g_accumMux)
FdExit ==
    /\ uiPc = "fd_exit"
    /\ g_accumMux' = "free"
    /\ uiPc' = "fd_store"
    /\ UNCHANGED <<g_accum, gWindow, uiRet, uiLocals, setupVars, bleVars, prodVars,
                   chanVars, schedVars, clockVars>>

\* history of a channel after a finalize that took its state from old to new:
\* one more finalize; the run of equal raw scores goes on, or a new run starts
\* from the smoothed value the channel held before this finalize
EmaHistNext(h, old, new) ==
    IF old.hasData /\ new.busyCurrent = old.busyCurrent
    THEN [h EXCEPT !.n = @ + 1, !.run = @ + 1]
    ELSE [n |-> h.n + 1, run |-> 1, start |-> old.busyEma]

\* mutant: the store also overwrites the slot of the channel that comes next
FdStoreAlsoNext ==
    /\ uiPc = "fd_store"
    /\ channels' = [channels EXCEPT
                       ![currentChannel] = Finalized(@, snap),
                       ![(currentChannel % kChannelCount) + 1] = Finalized(@, snap)]
    /\ emaHist' = [emaHist EXCEPT ![currentChannel] =
                      EmaHistNext(@, channels[currentChannel],
                                  channels'[currentChannel])]
    /\ lastFinal' = currentChannel
    /\ snap' = MetricsZero
    /\ UiReturn
    /\ UNCHANGED <<currentChannel, dwellStartedMs, radioChannel, sinceDwell,
                   sweepMs, lastSweepMs, faultLog, setupVars, bleVars, prodVars,
                   accVars, live, disp, gSnapWindow, clockVars>>

\* lines 211-219: store the snapshot, the raw score and the smoothed score;
\* the local snap goes out of scope
FdStore ==
    /\ uiPc = "fd_store"
    /\ channels' = [channels EXCEPT ![currentChannel] = Finalized(@, snap)]
    /\ emaHist' = [emaHist EXCEPT ![currentChannel] =
                      EmaHistNext(@, channels[currentChannel],
                                  channels'[currentChannel])]
    /\ lastFinal' = currentChannel
    /\ snap' = MetricsZero
    /\ UiReturn
    /\ UNCHANGED <<currentChannel, dwellStartedMs, radioChannel, sinceDwell,
                   sweepMs, lastSweepMs, faultLog, setupVars, bleVars, prodVars, accVars, live, disp,
                   gSnapWindow, clockVars>>

\* lines 203-209 as one step, with the counters read as an input: finishDwell
\* has copied the counters m of a dwell window of the active channel into snap
\* and is about to store them (for the specifications of the scoring
\* functions, where the snapshot is drawn from a grid)
FdSnapshot(grid, maxWin) ==
    /\ uiPc = "idle"
    /\ timerArmed
    /\ emaHist[currentChannel].n < maxWin
    /\ \E m \in grid : snap' = m
    /\ uiPc' = "fd_store"
    /\ uiRet' = <<"idle">>
    /\ UNCHANGED <<live, disp, gSnapWindow, setupVars, bleVars, prodVars, accVars, chanVars,
                   schedVars, clockVars>>

\* the same with the rest of the tick as in the program: hopIfNeeded goes on
\* with resetAccum and the hop, uiTimerCb with refreshUi (lines 226-231, 405)
FdSnapshotHop(grid, maxWin) ==
    /\ uiPc = "idle"
    /\ timerArmed
    /\ lastFinal < maxWin
    /\ \E m \in grid : snap' = m
    /\ uiPc' = "fd_store"
    /\ uiRet' = <<"ra_enter", "hop_next", "rf_rank", "idle">>
    /\ UNCHANGED <<live, disp, gSnapWindow, setupVars, bleVars, prodVars, accVars, chanVars,
                   schedVars, clockVars>>

\* mutant: the wrap test is off by one
NextChannelEarlyWrap(c) == IF c + 1 >= kChannelCount THEN 1 ELSE c + 1

\* lines 229-230: currentChannel += 1; if (currentChannel > kChannelCount) ... = 1
NextChannel(c) == IF c + 1 > kChannelCount THEN 1 ELSE c + 1

\* lines 229-231, then applyChannel(currentChannel)
HopNext ==
    /\ uiPc = "hop_next"
    /\ currentChannel' = NextChannel(currentChannel)
    /\ uiPc' = "ac_set"
    /\ UNCHANGED <<uiRet, dwellStartedMs, radioChannel, sinceDwell, lastFinal,
                   sweepMs, lastSweepMs, faultLog, setupVars, bleVars, prodVars, accVars, chanVars,
                   uiLocals, clockVars>>

\* lines 359-389: the global bar, the top-3 rows, the strip marker; Accum live{}
RfRank ==
    /\ uiPc = "rf_rank"
    /\ disp' = [disp EXCEPT !.global = globalActivityMax(channels),
                            !.top = sortTop3(channels),
                            !.active = currentChannel]
    /\ live' = MetricsZero
    /\ uiPc' = "rf_enter"
    /\ UNCHANGED <<snap, gSnapWindow, uiRet, setupVars, bleVars, prodVars, accVars,
                   chanVars, schedVars, clockVars>>

\* mutant: refreshUi reads g_accum without entering the critical section
RfEnterUnlocked ==
    /\ uiPc = "rf_enter"
    /\ uiPc' = "rf_frames"
    /\ UNCHANGED <<accVars, uiRet, uiLocals, setupVars, bleVars, prodVars,
                   chanVars, schedVars, clockVars>>

\* line 390: portENTER_CRITICAL(&g_accumMux) in refreshUi
RfEnter ==
    /\ uiPc = "rf_enter"
    /\ g_accumMux = "free"
    /\ g_accumMux' = "ui"
    /\ uiPc' = "rf_frames"
    /\ UNCHANGED <<g_accum, gWindow, uiRet, uiLocals, setupVars, bleVars, prodVars,
                   chanVars, schedVars, clockVars>>

\* one read of refreshUi from g_accum into live
RfRead(next, l) ==
    /\ live' = l
    /\ uiPc' = next
    /\ UNCHANGED <<accVars, snap, disp, gSnapWindow, uiRet, setupVars, bleVars, prodVars,
                   chanVars, schedVars, clockVars>>

\* line 391
RfFrames ==
    /\ uiPc = "rf_frames"
    /\ RfRead("rf_bytes", [live EXCEPT !.frames = g_accum.frames])

\* line 392
RfBytes ==
    /\ uiPc = "rf_bytes"
    /\ RfRead("rf_strong", [live EXCEPT !.bytes = g_accum.bytes])

\* line 393
RfStrong ==
    /\ uiPc = "rf_strong"
    /\ RfRead("rf_unique", [live EXCEPT !.strong = g_accum.strong])

\* line 394
RfUnique ==
    /\ uiPc = "rf_unique"
    /\ RfRead("rf_exit", [live EXCEPT !.unique = g_accum.unique])

\* line 395: portEXIT_CRITICAL(&g_accumMux)
RfExit ==
    /\ uiPc = "rf_exit"
    /\ g_accumMux' = "free"
    /\ uiPc' = "rf_show"
    /\ UNCHANGED <<g_accum, gWindow, uiRet, uiLocals, setupVars, bleVars, prodVars,
                   chanVars, schedVars, clockVars>>

\* lines 397-398: the dwell line shows the live packet and byte counts; the
\* local live goes out of scope
RfShow ==
    /\ uiPc = "rf_show"
    /\ disp' = [disp EXCEPT !.pkt = live.frames, !.bytes = live.bytes]
    /\ live' = MetricsZero
    /\ UiReturn
    /\ UNCHANGED <<snap, gSnapWindow, setupVars, bleVars, prodVars, accVars,
                   chanVars, schedVars, clockVars>>

----------------------------------------------------------------------------
(* Environment: the millisecond clock.  Time passes while the consumer is  *)
(* idle, until the LVGL timer is due; the timer then runs before more time *)
(* passes.  A delta larger than kUiIntervalMs is a late tick.              *)

Advance(deltas, maxAdv, maxLate) ==
    /\ uiPc = "idle"
    /\ timerArmed
    /\ sinceTick < kUiIntervalMs
    /\ nAdv < maxAdv
    /\ \E d \in deltas :
          /\ (d # kUiIntervalMs) => (nLate < maxLate)
          /\ now' = Add32(now, d)
          /\ sinceDwell' = sinceDwell + d
          /\ sinceTick' = sinceTick + d
          /\ nLate' = IF d # kUiIntervalMs THEN nLate + 1 ELSE nLate
    /\ nAdv' = nAdv + 1
    /\ UNCHANGED <<currentChannel, dwellStartedMs, radioChannel, lastFinal,
                   sweepMs, lastSweepMs, faultLog, setupVars, bleVars, prodVars, accVars, chanVars,
                   uiCtl, uiLocals>>

----------------------------------------------------------------------------
(* The steps of the program proper, common to every specification.         *)

Producer == CbEnter \/ CbFrames \/ CbBytes \/ CbStrong \/ CbDedup \/ CbExit

\* Tamagotchi_Init's call of ensureWifiMonitor, with resetAccum and applyChannel
Setup ==
    \/ TamagotchiInit \/ EwCheck \/ EwChan
    \/ RaEnter \/ RaFrames \/ RaBytes \/ RaStrong \/ RaUnique \/ RaFill
    \/ RaHashes \/ RaExit
    \/ applyChannel

\* refreshUi
Refresh ==
    \/ RfRank \/ RfEnter \/ RfFrames \/ RfBytes \/ RfStrong \/ RfUnique \/ RfExit
    \/ RfShow

\* the timer callback and hopIfNeeded with finishDwell
Hop ==
    \/ uiTimerCb \/ HopCheck
    \/ FdEnter \/ FdFrames \/ FdBytes \/ FdStrong \/ FdUnique \/ FdExit \/ FdStore
    \/ HopNext

Consumer == Setup \/ Refresh \/ Hop

----------------------------------------------------------------------------
(* Specification Spec: mixed traffic against a steadily ticking consumer.  *)

\* three valid frames: one exactly MacHdrLen long at exactly the strong
\* threshold from a transmitter whose hash is 0, one just below the threshold,
\* one from a third transmitter whose hash collides with the second's; and two
\* invalid ones: an uncounted packet type, and a frame one byte too short
PktsMixed ==
    {Pkt("DATA", 30, -65, <<0, 0, 0>>),
     Pkt("MGMT", 100, -66, <<0, 0, 1>>),
     Pkt("CTRL", 64, -40, <<1, 0, 1>>),
     Pkt("MISC", 100, -40, <<0, 0, 1>>),
     Pkt("DATA", 29, -40, <<0, 0, 1>>)}

ReceiveMixed == Receive(PktsMixed, MaxCalls)

AdvanceSteady == Advance({kUiIntervalMs}, MaxAdvances, 0)

Init == InitAt({U32(0, 0)})

Next == Producer \/ Consumer \/ ReceiveMixed \/ AdvanceSteady

Spec == Init /\ [][Next]_vars

----------------------------------------------------------------------------
(* Specification SpecFlood: a flood of frames, each from a new transmitter *)
(* (the k-th call carries the k-th address), enough to fill the dedup      *)
(* table, in the time from boot to the first timer tick: Tamagotchi_Init   *)
(* with its resetAccum and refreshUi runs against the flood.               *)

MacOf(k) == <<0, k \div U8, k % U8>>

ReceiveFlood == Receive({Pkt("DATA", 64, -70, MacOf(cbCalls))}, FloodCalls)

NextFlood == Producer \/ Setup \/ Refresh \/ ReceiveFlood

SpecFlood == Init /\ [][NextFlood]_vars

----------------------------------------------------------------------------
(* Specification SpecDedup: the flood with retransmissions.  Every eighth   *)
(* frame comes from the transmitter of the frame before it, so that hashes  *)
(* already in the table arrive while it fills; the last frame comes from    *)
(* the 25th distinct transmitter.                                           *)

DedupCalls == 28

ReceiveDedup ==
    Receive({Pkt("DATA", 64, -70,
                 MacOf(IF cbCalls % 8 = 7 THEN cbCalls - 1 ELSE cbCalls))},
            DedupCalls)

NextDedup == Producer \/ Setup \/ Refresh \/ ReceiveDedup

SpecDedup == Init /\ [][NextDedup]_vars

----------------------------------------------------------------------------
(* Specification SpecSched: the scheduler over more than a full sweep.     *)
(* Ticks arrive every kUiIntervalMs, except for at most MaxLate ticks that *)
(* arrive late (by 19 ms, by 20 ms, or after more than two dwell times);   *)
(* millis() at boot is 0 or 130 ms before the uint32_t counter wraps.  No  *)
(* frame is received: the scheduler reads only the clock and its own state.*)

BootTimes == {U32(0, 0), U32(U16 - 1, U16 - 130)}

SchedDeltas == {kUiIntervalMs, 139, 140, 600}

AdvanceSched == Advance(SchedDeltas, SchedAdvances, MaxLate)

InitSched == InitAt(BootTimes)

NextSched == Consumer \/ AdvanceSched

SpecSched == InitSched /\ [][NextSched]_vars

----------------------------------------------------------------------------
(* Specification SpecLive: the scheduler with its scheduling assumptions,  *)
(* for a sweep and a few dwell windows more.  The LVGL timer keeps running *)
(* uiTimerCb (loop() calls the timer handler for ever), a handler that can *)
(* take a step takes it, the callback runs to its end once invoked, and    *)
(* the clock advances by one timer period at a time while the consumer is  *)
(* idle and no callback is running (a callback takes microseconds).        *)
(* Frames arrive at any point of the first timer periods, in the middle of *)
(* any critical section of the consumer, and a channel-set command may     *)
(* fail every time.                                                        *)

LiveAdvances == 48

LiveCalls == 1

\* timer periods during which frames arrive
LiveTraffic == 3

ReceiveLive ==
    /\ nAdv < LiveTraffic
    /\ Receive({Pkt("DATA", 64, -60, <<0, 0, 1>>)}, LiveCalls)

AdvanceLive ==
    /\ cbPc = "idle"
    /\ Advance({kUiIntervalMs}, LiveAdvances, 0)

NextLive == Producer \/ Consumer \/ ReceiveLive \/ AdvanceLive

\* weak fairness of the callback, of the consumer and of the clock.  The
\* consumer's step at rf_rank is always possible there and leads to rf_enter:
\* fairness for it is stated on the position alone.
FairLive ==
    /\ WF_vars(Producer)
    /\ WF_vars(uiPc # "rf_rank" /\ Consumer)
    /\ WF_uiPc(uiPc = "rf_rank" /\ uiPc' = "rf_enter")
    /\ WF_vars(AdvanceLive)

SpecLive == Init /\ [][NextLive]_vars /\ FairLive

----------------------------------------------------------------------------
(* Specification SpecScore: computeBusyScore and finishDwell's store on     *)
(* snapshots drawn from a grid of counter values, torn and oversized ones   *)
(* included (frames = 0 with bytes > 0, strong > frames, counters of        *)
(* billions): the functions are applied to every input of the grid, twice   *)
(* in a row on the channel the boot sequence selected.                      *)

ScoreGrid ==
    [frames : {0, 1, 2000000000}, bytes : {0, 3000, 2000000000},
     strong : {0, 1, 65535}, unique : {0, 24}]

FdSnapshotScore == FdSnapshot(ScoreGrid, MaxScoreWindows)

NextScore == Setup \/ Refresh \/ FdSnapshotScore \/ FdStore

SpecScore == Init /\ [][NextScore]_vars

----------------------------------------------------------------------------
(* Specification SpecEma: the successive finalizes of one channel (the      *)
(* dwell windows of the other channels in between leave its slot alone),    *)
(* each with the snapshot of a silent, a light or a saturated window.       *)

EmaGrid ==
    {MetricsZero,
     [frames |-> 1, bytes |-> 30, strong |-> 0, unique |-> 1],
     [frames |-> 200, bytes |-> 20000, strong |-> 200, unique |-> 24]}

FdSnapshotEma == FdSnapshot(EmaGrid, MaxEmaWindows)

NextEma == Setup \/ Refresh \/ FdSnapshotEma \/ FdStore

SpecEma == Init /\ [][NextEma]_vars

----------------------------------------------------------------------------
(* Specification SpecRank: globalActivityMax and sortTop3 as refreshUi      *)
(* calls them, over the first dwell windows of a sweep.  Each window ends   *)
(* with the snapshot of a silent, a light or a saturated window, so that    *)
(* channels with equal and with different smoothed scores, silent channels  *)
(* with data and channels without data stand side by side.                  *)

FdSnapshotRank == FdSnapshotHop(EmaGrid, MaxRankWindows)

NextRank == Setup \/ Refresh \/ FdSnapshotRank \/ FdStore \/ HopNext

SpecRank == Init /\ [][NextRank]_vars

----------------------------------------------------------------------------
(* BleWatch: the scan callback, the device table and the LVGL timer.       *)
(* millis() does not move while a handler runs, so a handler is one step:  *)
(* noteDeviceSeen is one critical section, and updateLedAndUi reads the    *)
(* table in one critical section and owns every other variable it uses.    *)

\* static_cast<int8_t>(rssi), line 190
ToInt8(r) == ((r + 128) % 256) - 128

MinOf(S) == CHOOSE x \in S : \A y \in S : x <= y

\* lines 172-186: the slot of the first used entry with this address, else
\* the first free slot, else none (0)
SlotFor(mac) ==
    LET match == {i \in 1..BleSlots : g_devices[i].used /\ g_devices[i].mac = mac}
        free  == {i \in 1..BleSlots : ~g_devices[i].used}
    IN  IF match # {} THEN MinOf(match)
        ELSE IF free # {} THEN MinOf(free)
        ELSE 0

\* lines 161-200: noteDeviceSeen(mac, rssi, name), as onResult calls it
noteDeviceSeen(mac, rssi) ==
    LET nowMs == bleNow
        idx   == SlotFor(mac)
    IN  /\ g_lastAnySeenMs' = nowMs
        /\ g_bestRssi' = IF rssi > g_bestRssi THEN rssi ELSE g_bestRssi
        /\ g_devices' =
              IF idx >= 1
              THEN [g_devices EXCEPT ![idx] =
                       [mac |-> mac, lastSeenMs |-> nowMs,
                        lastRssi |-> ToInt8(rssi), used |-> TRUE]]
              ELSE g_devices

\* history: mac was sighted this millisecond
HeardNow(mac) ==
    [m \in (DOMAIN bleHeard) \cup {mac} |-> IF m = mac THEN 0 ELSE bleHeard[m]]

\* history: ms milliseconds pass (an age beyond kDeviceStaleMs is not told apart)
HeardAfter(ms) ==
    [m \in DOMAIN bleHeard |->
        IF bleHeard[m] + ms > kDeviceStaleMs THEN kDeviceStaleMs + 1
        ELSE bleHeard[m] + ms]

\* lines 265-281: the scan reports an advertisement.  The devices of macs
\* advertise every period milliseconds, each at one of the levels rssis or,
\* out of range, not at all.
BleSeen(macs, rssis, period) ==
    /\ bleTimer # "off"
    /\ (bleTicks * kBleUiIntervalMs) % period = 0
    /\ \E mac \in macs \ bleSeenNow, rssi \in rssis :
          /\ noteDeviceSeen(mac, rssi)
          /\ bleSeenNow' = bleSeenNow \cup {mac}
          /\ bleHeard' = HeardNow(mac)
    /\ UNCHANGED <<g_veryCloseMac, g_veryCloseStartMs, g_safeBlinkTriggered,
                   g_safeBlinkStartMs, bleNow, bleTimer, bleUi, bleTicks, vcMac,
                   vcRunMs, lockSteady, blinkOnsets, countNowMs, vars>>

\* line 215: (nowMs - lastSeenMs) <= kDeviceStaleMs
IsFresh(d, nowMs) == Lt32(Sub32(nowMs, d.lastSeenMs), kDeviceStaleMs + 1)

ScanZero ==
    [count |-> 0, best |-> kNoRssi, bestIdx |-> 0, stickyIdx |-> 0,
     stickyRssi |-> kNoRssi]

\* lines 213-231: the loop over the table, from slot i on
RECURSIVE ScanDevices(_, _, _)
ScanDevices(i, nowMs, acc) ==
    IF i > BleSlots THEN acc
    ELSE LET d == g_devices[i]
         IN  IF ~d.used \/ ~IsFresh(d, nowMs)
             THEN ScanDevices(i + 1, nowMs, acc)
             ELSE LET a1 == [acc EXCEPT !.count = @ + 1]
                      a2 == IF d.lastRssi > a1.best
                            THEN [a1 EXCEPT !.best = d.lastRssi, !.bestIdx = i]
                            ELSE a1
                      a3 == IF d.mac = g_veryCloseMac
                            THEN [a2 EXCEPT !.stickyIdx = i, !.stickyRssi = d.lastRssi]
                            ELSE a2
                  IN  ScanDevices(i + 1, nowMs, a3)

\* the tracked device gives way to any other device that is the best
StickyKeepsNever(acc) == FALSE

\* lines 235-237: the tracked device is kept
StickyKeeps(acc) ==
    /\ acc.stickyIdx >= 1
    /\ acc.stickyRssi >= kVeryCloseRssiDbm
    /\ acc.bestIdx # acc.stickyIdx
    /\ (acc.best - acc.stickyRssi) <= kStickyRssiMarginDb

\* lines 202-261: the count, the RSSI and the address of the device to show
countActiveDevicesAndBest(nowMs) ==
    LET acc == ScanDevices(1, nowMs, ScanZero)
        sel == IF StickyKeeps(acc)
               THEN [acc EXCEPT !.bestIdx = acc.stickyIdx, !.best = acc.stickyRssi]
               ELSE acc
    IN  [count |-> sel.count, bestRssi |-> sel.best,
         bestMac |-> IF sel.bestIdx >= 1 THEN g_devices[sel.bestIdx].mac ELSE MacZero]

\* clamp01 of blewatch.cpp (lines 130-134) on the fraction num / den, den > 0:
\* the numerator of the clamped fraction
bleClamp01(num, den) ==
    IF num < 0 THEN 0 ELSE IF num > den THEN den ELSE num

\* lines 429-434, as a numerator over kCloseStartRssiDbm - kNearStartRssiDbm
rssiToNearT(bestRssi) ==
    bleClamp01(bestRssi - kNearStartRssiDbm, kCloseStartRssiDbm - kNearStartRssiDbm)

\* lines 436-441, as a numerator over kVeryCloseRssiDbm - kCloseStartRssiDbm
rssiToCloseT(bestRssi) ==
    bleClamp01(bestRssi - kCloseStartRssiDbm, kVeryCloseRssiDbm - kCloseStartRssiDbm)

\* static_cast<int>(base + (num / den) * span + 0.5f), lines 567 and 588
BarValue(base, span, num, den) ==
    base + (((2 * span * num) + den) \div (2 * den))

\* the bands, with the VERY CLOSE threshold itself left in CLOSE
BleBandAboveThreshold(count, bestRssi) ==
    IF count = 0 \/ bestRssi < kFarRssiDbm THEN "FAR"
    ELSE IF bestRssi < kNearStartRssiDbm THEN "TOO FAR"
    ELSE IF bestRssi > kVeryCloseRssiDbm THEN "VERY CLOSE"
    ELSE IF bestRssi >= kCloseStartRssiDbm THEN "CLOSE"
    ELSE "NEAR"

\* the proximity band chosen by lines 464, 477, 489 and 563
BleBand(count, bestRssi) ==
    IF count = 0 \/ bestRssi < kFarRssiDbm THEN "FAR"
    ELSE IF bestRssi < kNearStartRssiDbm THEN "TOO FAR"
    ELSE IF bestRssi >= kVeryCloseRssiDbm THEN "VERY CLOSE"
    ELSE IF bestRssi >= kCloseStartRssiDbm THEN "CLOSE"
    ELSE "NEAR"

\* lines 543-554: the LED of the safe blink, blinkElapsed after its start
BlinkLed(blinkElapsed) ==
    IF Lt32(blinkElapsed, kBlinkDurationMs)
    THEN IF (blinkElapsed.lo \div kBlinkPeriodMs) < 2
            /\ (blinkElapsed.lo % kBlinkPeriodMs) < kBlinkOnMs
         THEN "GREEN"
         ELSE "OFF"
    ELSE "BLUE"

\* vcRunMs is counted up to the end of the safe blink
VcRunCap == kVulnCheckDwellMs + kBlinkDurationMs

\* lines 503 and 520: dwellMs >= kVulnCheckDwellMs
VulnCheckDue(dwellMs) == ~Lt32(dwellMs, kVulnCheckDwellMs)

\* lines 443-590: updateLedAndUi(), with countMs the value of millis() that
\* countActiveDevicesAndBest read at line 203; line 460 reads millis() again
updateLedAndUiFrom(countMs) ==
    LET nowMs == bleNow
        r     == countActiveDevicesAndBest(countMs)
        band  == BleBand(r.count, r.bestRssi)
        rssiText == IF r.bestRssi <= kRssiShownAbove \/ r.count = 0
                    THEN "--" ELSE r.bestRssi
        \* lines 493-499
        sameDevice == g_veryCloseMac = r.bestMac
        startMs    == IF sameDevice THEN g_veryCloseStartMs ELSE nowMs
        triggered  == IF sameDevice THEN g_safeBlinkTriggered ELSE FALSE
        dwellMs    == Sub32(nowMs, startMs)
        \* lines 502-505
        checked    == VulnCheckDue(dwellMs)
        showVulnWarning == checked /\ isOuiPotentiallyVulnerable(r.bestMac)
        \* lines 536-542
        safe       == ~showVulnWarning /\ checked
        blinkStart == IF safe /\ ~triggered THEN nowMs ELSE g_safeBlinkStartMs
        led        == IF showVulnWarning THEN "RED"
                      ELSE IF checked THEN BlinkLed(Sub32(nowMs, blinkStart))
                      ELSE "BLUE"
        run        == IF vcMac = r.bestMac THEN vcRunMs + kBleUiIntervalMs ELSE 0
    IN  CASE band \in {"FAR", "TOO FAR"} ->
               /\ bleUi' = [bleUi EXCEPT !.count = r.count, !.rssi = rssiText,
                                         !.state = band, !.nameHidden = TRUE,
                                         !.bar = 0,
                                         !.led = IF band = "FAR" THEN "OFF"
                                                 ELSE "ORANGE"]
               /\ g_veryCloseMac' = MacZero
               /\ g_veryCloseStartMs' = U32(0, 0)
               /\ g_safeBlinkTriggered' = FALSE
               /\ UNCHANGED g_safeBlinkStartMs
               /\ vcMac' = <<>>
               /\ vcRunMs' = 0
               /\ lockSteady' = FALSE
               /\ blinkOnsets' = 0
          [] band = "VERY CLOSE" ->
               /\ bleUi' = [bleUi EXCEPT !.count = r.count, !.rssi = rssiText,
                                         !.state = band, !.nameHidden = FALSE,
                                         !.nameText = r.bestMac,
                                         !.nameColor =
                                             IF checked
                                             THEN (IF showVulnWarning THEN "red"
                                                   ELSE "green")
                                             ELSE "cyan",
                                         !.bar = 100, !.led = led]
               /\ g_veryCloseMac' = r.bestMac
               /\ g_veryCloseStartMs' = startMs
               /\ g_safeBlinkTriggered' = (safe \/ triggered)
               /\ g_safeBlinkStartMs' = blinkStart
               /\ vcMac' = r.bestMac
               /\ vcRunMs' = IF run > VcRunCap THEN VcRunCap ELSE run
               /\ lockSteady' = (~sameDevice \/ lockSteady)
               /\ blinkOnsets' =
                     LET before == IF sameDevice THEN blinkOnsets ELSE 0
                     IN  IF led = "GREEN" /\ bleUi.led # "GREEN"
                         THEN before + 1 ELSE before
          [] band = "CLOSE" ->
               /\ bleUi' = [bleUi EXCEPT !.count = r.count, !.rssi = rssiText,
                                         !.state = band, !.nameHidden = TRUE,
                                         !.bar = BarValue(kNearBarSpan, kCloseBarSpan,
                                                     rssiToCloseT(r.bestRssi),
                                                     kVeryCloseRssiDbm - kCloseStartRssiDbm),
                                         !.led = "CYAN"]
               /\ UNCHANGED <<g_veryCloseMac, g_veryCloseStartMs,
                              g_safeBlinkTriggered, g_safeBlinkStartMs, blinkOnsets>>
               /\ vcMac' = <<>>
               /\ vcRunMs' = 0
               /\ lockSteady' = FALSE
          [] band = "NEAR" ->
               /\ bleUi' = [bleUi EXCEPT !.count = r.count, !.rssi = rssiText,
                                         !.state = band, !.nameHidden = TRUE,
                                         !.bar = BarValue(0, kNearBarSpan,
                                                     rssiToNearT(r.bestRssi),
                                                     kCloseStartRssiDbm - kNearStartRssiDbm),
                                         !.led = "GREEN_PULSE"]
               /\ UNCHANGED <<g_veryCloseMac, g_veryCloseStartMs,
                              g_safeBlinkTriggered, g_safeBlinkStartMs, blinkOnsets>>
               /\ vcMac' = <<>>
               /\ vcRunMs' = 0
               /\ lockSteady' = FALSE

\* updateLedAndUi() with no millisecond passing while it runs
updateLedAndUi ==
    /\ countNowMs' = bleNow
    /\ updateLedAndUiFrom(bleNow)

\* lines 599-621: Blewatch_Init() builds the screen, starts the scan task,
\* creates the timer and updates once
Blewatch_Init ==
    /\ bleTimer = "off"
    /\ bleTimer' = "wait"
    /\ updateLedAndUi
    /\ UNCHANGED <<g_devices, g_bestRssi, g_lastAnySeenMs, bleNow, bleTicks,
                   bleSeenNow, bleHeard, vars>>

\* lines 592-595: the LVGL timer runs uiTimerCb once its period has elapsed
bleUiTimerCb ==
    /\ bleTimer = "due"
    /\ bleTimer' = "wait"
    /\ updateLedAndUi
    /\ UNCHANGED <<g_devices, g_bestRssi, g_lastAnySeenMs, bleNow, bleTicks,
                   bleSeenNow, bleHeard, vars>>

\* kUiIntervalMs of blewatch.cpp pass
BleAdvance(maxTicks) ==
    /\ bleTimer = "wait"
    /\ bleTicks < maxTicks
    /\ bleTicks' = bleTicks + 1
    /\ bleNow' = Add32(bleNow, kBleUiIntervalMs)
    /\ bleTimer' = "due"
    /\ bleSeenNow' = {}
    /\ bleHeard' = HeardAfter(kBleUiIntervalMs)
    /\ UNCHANGED <<g_devices, g_bestRssi, g_lastAnySeenMs, g_veryCloseMac,
                   g_veryCloseStartMs, g_safeBlinkTriggered, g_safeBlinkStartMs,
                   bleUi, vcMac, vcRunMs, lockSteady, blinkOnsets, countNowMs,
                   vars>>

\* the Bandwatch part of the initial state, for the BleWatch specifications
BandwatchIdle ==
    /\ g_accum = AccumZero
    /\ g_accumMux = "free"
    /\ channels = [c \in Chans |-> ChannelStateZero]
    /\ currentChannel = 1
    /\ dwellStartedMs = U32(0, 0)
    /\ started = FALSE
    /\ promiscuous = FALSE
    /\ radioChannel = 0
    /\ timerArmed = FALSE
    /\ now = U32(0, 0)
    /\ uiPc = "boot"
    /\ uiRet = <<>>
    /\ snap = MetricsZero
    /\ live = MetricsZero
    /\ disp = [global |-> 0, top |-> <<-1, -1, -1>>, active |-> 0,
               pkt |-> 0, bytes |-> 0]
    /\ cbPc = "idle"
    /\ cbPkt = NoPkt
    /\ cbCalls = 0
    /\ cbEntry = AccumZero
    /\ gWindow = EmptyWindow
    /\ gSnapWindow = EmptyWindow
    /\ sinceDwell = 0
    /\ sinceTick = 0
    /\ nAdv = 0
    /\ nLate = 0
    /\ lastFinal = 0
    /\ sweepMs = 0
    /\ lastSweepMs = 0
    /\ faultLog = <<>>
    /\ emaHist = [c \in Chans |-> EmaHistZero]

----------------------------------------------------------------------------
(* Specification SpecBleSticky: two devices that advertise every two       *)
(* seconds, around the VERY CLOSE threshold and the sticky margin, for      *)
(* long enough that a device that stopped advertising goes stale.          *)

StickyTicks == 90

\* CLOSE, the weakest VERY CLOSE level, and levels 5, 10 and 11 dB above it
StickyRssis == {-45, -40, -35, -30, -29}

InitBle == BandwatchIdle /\ BleStatic

NextBleSticky ==
    \/ Blewatch_Init
    \/ bleUiTimerCb
    \/ BleSeen(BleMacs, StickyRssis, 2000 * kBleScanDurationS)
    \/ BleAdvance(StickyTicks)

SpecBleSticky == InitBle /\ [][NextBleSticky]_allVars

----------------------------------------------------------------------------
(* Specification SpecBleProx: two devices that advertise every second at   *)
(* levels on both sides of every threshold.                                *)

ProxTicks == 30

ProxRssis == {-128, -90, -81, -80, -68, -67, -60, -51, -50, -45, -41, -40, -30}

NextBleProx ==
    \/ Blewatch_Init
    \/ bleUiTimerCb
    \/ BleSeen(BleMacs, ProxRssis, 1000 * kBleScanDurationS)
    \/ BleAdvance(ProxTicks)

SpecBleProx == InitBle /\ [][NextBleProx]_allVars

----------------------------------------------------------------------------
(* Specification SpecBleDwell: a device of an unflagged vendor and one of  *)
(* a flagged vendor advertise every second, in the VERY CLOSE or in the    *)
(* CLOSE range, for long enough that the 3-second check runs and the safe  *)
(* blink plays to its end.                                                 *)

DwellTicks == 100

DwellRssis == {-45, -30}

NextBleDwell ==
    \/ Blewatch_Init
    \/ bleUiTimerCb
    \/ BleSeen(BleMacs, DwellRssis, 1000 * kBleScanDurationS)
    \/ BleAdvance(DwellTicks)

SpecBleDwell == InitBle /\ [][NextBleDwell]_allVars

----------------------------------------------------------------------------
(* Specification SpecBleLong: the program 80 ms before a device that was   *)
(* locked on 65616 ms after boot has been tracked for 2^32 ms (49.7 days), *)
(* shown as VERY CLOSE by every update in between.  millis() has wrapped   *)
(* once and reads 65536; the check ran 3 seconds after the lock-on, and    *)
(* for the unflagged device the safe blink played then.                    *)

LongTicks == 80

LongNow == U32(1, 0)

\* milliseconds from LongNow to the moment the lock-on is 2^32 ms old
LongLeadMs == 80

InitBleLong ==
    /\ BandwatchIdle
    /\ \E mac \in BleMacs :
          LET flagged == isOuiPotentiallyVulnerable(mac)
          IN  /\ g_devices =
                    [i \in 1..BleSlots |->
                        IF i = 1
                        THEN [mac |-> mac, lastSeenMs |-> LongNow,
                              lastRssi |-> -30, used |-> TRUE]
                        ELSE DeviceSlotZero]
              /\ g_veryCloseMac = mac
              /\ g_safeBlinkTriggered = ~flagged
              /\ g_safeBlinkStartMs =
                    IF flagged THEN U32(0, 0)
                    ELSE Add32(LongNow, LongLeadMs + kVulnCheckDwellMs)
              /\ bleUi = [count |-> 1, rssi |-> -30, state |-> "VERY CLOSE",
                          nameHidden |-> FALSE, nameText |-> mac,
                          nameColor |-> IF flagged THEN "red" ELSE "green",
                          bar |-> 100,
                          led |-> IF flagged THEN "RED" ELSE "BLUE"]
              /\ bleSeenNow = {mac}
              /\ vcMac = mac
              /\ blinkOnsets = IF flagged THEN 0 ELSE 2
              /\ bleHeard = [m \in {mac} |-> 0]
    /\ g_bestRssi = -30
    /\ g_lastAnySeenMs = LongNow
    /\ g_veryCloseStartMs = Add32(LongNow, LongLeadMs)
    /\ bleNow = LongNow
    /\ bleTimer = "wait"
    /\ bleTicks = 0
    /\ vcRunMs = VcRunCap
    /\ lockSteady = TRUE
    /\ countNowMs = LongNow

\* the devices keep advertising every second, in the VERY CLOSE range
NextBleLong ==
    \/ bleUiTimerCb
    \/ BleSeen(BleMacs, {-30}, 1000 * kBleScanDurationS)
    \/ BleAdvance(LongTicks)

SpecBleLong == InitBleLong /\ [][NextBleLong]_allVars

----------------------------------------------------------------------------
(* Specification SpecBleRace: the scan callback runs between the two steps  *)
(* of countActiveDevicesAndBest.  The UI task reads millis() at line 203   *)
(* and enters the critical section at line 212; the BLE host task may      *)
(* run noteDeviceSeen in between, and the millisecond counter may advance. *)

RaceTicks == 3

\* milliseconds that may pass between line 203 and line 212
RaceSlipMs == 1

\* lines 592-595, 447, 203: the timer callback starts the update, which
\* starts the count, which samples the clock
CountSampleClock ==
    /\ bleTimer = "due"
    /\ bleTimer' = "count"
    /\ countNowMs' = bleNow
    /\ UNCHANGED <<g_devices, g_bestRssi, g_lastAnySeenMs, g_veryCloseMac,
                   g_veryCloseStartMs, g_safeBlinkTriggered, g_safeBlinkStartMs,
                   bleNow, bleUi, bleTicks, bleSeenNow, vcMac, vcRunMs,
                   lockSteady, blinkOnsets, bleHeard, vars>>

\* a millisecond passes while the count waits before line 212
CountClockTick ==
    /\ bleTimer = "count"
    /\ Lt32(Sub32(bleNow, countNowMs), RaceSlipMs)
    /\ bleNow' = Add32(bleNow, 1)
    /\ bleSeenNow' = {}
    /\ bleHeard' = HeardAfter(1)
    /\ UNCHANGED <<g_devices, g_bestRssi, g_lastAnySeenMs, g_veryCloseMac,
                   g_veryCloseStartMs, g_safeBlinkTriggered, g_safeBlinkStartMs,
                   bleTimer, bleUi, bleTicks, vcMac, vcRunMs, lockSteady,
                   blinkOnsets, countNowMs, vars>>

\* lines 212-261 and the rest of updateLedAndUi (lines 448-590): the scan of
\* the table with the time sampled at line 203
CountScanTable ==
    /\ bleTimer = "count"
    /\ bleTimer' = "wait"
    /\ updateLedAndUiFrom(countNowMs)
    /\ UNCHANGED <<g_devices, g_bestRssi, g_lastAnySeenMs, bleNow, bleTicks,
                   bleSeenNow, bleHeard, countNowMs, vars>>

NextBleRace ==
    \/ Blewatch_Init
    \/ CountSampleClock
    \/ CountClockTick
    \/ BleSeen(BleMacs, {-60}, kBleUiIntervalMs)
    \/ CountScanTable
    \/ BleAdvance(RaceTicks)

SpecBleRace == InitBle /\ [][NextBleRace]_allVars

----------------------------------------------------------------------------
(* Specification SpecBleTable: one device more than the table has slots.   *)
(* The devices advertise every 2 seconds or stay silent, and never more    *)
(* than BleSlots of them are in range within kDeviceStaleMs of each other, *)
(* for long enough that the first ones go stale and another one arrives.   *)

TableTicks == 102

\* the k-th device (unflagged vendor)
MacNo(k) == <<36, 10, 196, 1, 2, k>>

TableMacs == {MacNo(k) : k \in 1..(BleSlots + 1)}

\* history: the addresses sighted within the last kDeviceStaleMs
HeardActive == {m \in DOMAIN bleHeard : bleHeard[m] <= kDeviceStaleMs}

BleSeenInRange ==
    /\ BleSeen(TableMacs, {-60}, 2000 * kBleScanDurationS)
    /\ Cardinality(HeardActive') <= BleSlots

NextBleTable ==
    \/ Blewatch_Init
    \/ bleUiTimerCb
    \/ BleSeenInRange
    \/ BleAdvance(TableTicks)

SpecBleTable == InitBle /\ [][NextBleTable]_allVars

----------------------------------------------------------------------------
(* Properties.                                                             *)

\* the consumer is in the scheduler transition of hopIfNeeded, at position pc
InHop(pc) == uiPc = pc /\ uiRet # <<>> /\ Head(uiRet) = "hop_next"

\* the producer is inside its critical section
CbInCritical == cbPc \in {"cb_frames", "cb_bytes", "cb_strong", "cb_dedup", "cb_exit"}

\* C1: no frame is lost across windows: when the scheduler transition is about
\* to zero the accumulator (resetAccum holds the mux, nothing zeroed yet), the
\* frames recorded in the window are exactly those of the finalized snapshot
\* and the counters are those stored for the channel; and no record call runs between
\* the snapshot and the reset.
C1_SnapshotResetAtomic ==
    /\ InHop("ra_frames") =>
          /\ gWindow = gSnapWindow
          /\ Counters(g_accum) = channels[currentChannel].metrics
    /\ ~((uiPc = "fd_store" \/ InHop("ra_enter")) /\ CbInCritical)

\* the counters that a window of frames adds up to
WindowCounters(w) ==
    [frames |-> WindowFrames(w), bytes |-> WindowBytes(w), strong |-> WindowStrong(w)]

\* C2: at every finalize the snapshot stored for the active channel is the sum
\* of exactly the valid record calls executed since the previous reset:
\* frames their number, bytes the sum of their lengths, strong the number of
\* them at or above the threshold.
C2_SnapshotIsWindowSum ==
    InHop("ra_enter") =>
        LET m == channels[currentChannel].metrics
        IN  [frames |-> m.frames, bytes |-> m.bytes, strong |-> m.strong]
              = WindowCounters(gSnapWindow)

\* C2 witness: the second finalize, after a first window that held a frame, of
\* a window that holds a frame too
C2_Witness ==
    /\ InHop("ra_enter")
    /\ currentChannel = 2
    /\ channels[1].metrics.frames >= 1
    /\ channels[2].metrics.frames >= 1
    /\ channels[2].metrics.bytes # channels[1].metrics.bytes

\* counters that can come from one accumulator state
Untorn(m) ==
    /\ m.strong <= m.frames
    /\ m.unique <= m.frames
    /\ m.unique <= kUniqueSlots
    /\ (m.frames = 0) => (m.bytes = 0 /\ m.strong = 0 /\ m.unique = 0)

\* C3: no reader observes a torn combination of counters: the four counters
\* finishDwell and refreshUi have read are those of one accumulator state (the
\* state at the end of the critical section), so strong <= frames,
\* unique <= frames, unique <= K, and frames = 0 implies the others are 0.
C3_NoTornRead ==
    /\ (uiPc = "fd_exit") => (snap = Counters(g_accum))
    /\ (uiPc = "rf_exit") => (live = Counters(g_accum))
    /\ Untorn(snap)
    /\ Untorn(live)

\* C3 witness: finishDwell has read a non-empty snapshot while a record call
\* was waiting for the mux
C3_Witness ==
    /\ uiPc = "fd_exit"
    /\ snap.frames >= 1
    /\ snap.unique >= 1
    /\ cbPc = "cb_enter"

\* C4: record on an invalid frame (uncounted packet type, or shorter than the
\* MAC header) is a no-op: the call returns and nothing but the history of
\* calls changes.
C4_InvalidFrameNoOp ==
    [][(cbCalls' = cbCalls + 1
          /\ (~IsCountedType(cbPkt'.type) \/ cbPkt'.sig_len < 30))
        => /\ cbPc' = "idle"
           /\ UNCHANGED <<g_accum, g_accumMux, gWindow, cbEntry, chanVars,
                          uiCtl, uiLocals, setupVars, schedVars, clockVars>>]_vars

\* C4 witness: a frame one byte shorter than the header was dropped while the
\* accumulator already held a frame
C4_Witness ==
    /\ cbCalls >= 2
    /\ cbPc = "idle"
    /\ cbPkt.sig_len = 29
    /\ IsCountedType(cbPkt.type)
    /\ g_accum.frames = 1

\* C5: record on a valid frame adds 1 to frames, the frame length to bytes,
\* and 1 to strong if and only if rssi >= -65.
C5_ValidFrameCounted ==
    (cbPc = "cb_exit") =>
        /\ g_accum.frames = cbEntry.frames + 1
        /\ g_accum.bytes = cbEntry.bytes + cbPkt.sig_len
        /\ g_accum.strong = cbEntry.strong + (IF cbPkt.rssi >= -65 THEN 1 ELSE 0)

\* C5 witness: a frame at exactly -65 dBm was counted as strong after a frame
\* at -66 dBm that was not
C5_Witness ==
    /\ cbPc = "cb_exit"
    /\ cbPkt.rssi = -65
    /\ cbEntry.frames = 1
    /\ cbEntry.strong = 0
    /\ g_accum.strong = 1

\* no two transmitters recorded in the window share a hash
NoCollision(w) ==
    \A m1, m2 \in WindowSources(w) : (macHash(m1) = macHash(m2)) => (m1 = m2)

\* C7: uniqueCount never exceeds the number of distinct source addresses
\* recorded in the window; a frame whose hash is already in the table leaves
\* uniqueCount and the table unchanged; and while the table is not full and no
\* two recorded addresses share a hash, uniqueCount is the number of distinct
\* sources (a source whose hash is 0 included).
C7_UniqueLowerBound ==
    /\ g_accum.unique <= Cardinality(WindowSources(gWindow))
    /\ (cbPc = "cb_exit" /\ Known(cbEntry, macHash(cbPkt.mac))) =>
          /\ g_accum.unique = cbEntry.unique
          /\ g_accum.macFill = cbEntry.macFill
          /\ g_accum.macHashes = cbEntry.macHashes
    /\ (g_accumMux = "free" /\ g_accum.macFill < kUniqueSlots /\ NoCollision(gWindow))
          => (g_accum.unique = Cardinality(WindowSources(gWindow)))

\* C7 witness: two transmitters without a collision, one of them with hash 0,
\* were counted as two
C7_Witness ==
    /\ g_accumMux = "free"
    /\ <<0, 0, 0>> \in WindowSources(gWindow)
    /\ NoCollision(gWindow)
    /\ g_accum.unique = 2


\* C6: uniqueCount never exceeds the capacity K = 24 and the table never holds
\* more than K entries; uniqueCount decreases only when resetAccum zeroes it
\* (it is non-decreasing within a dwell window); and once the table is full a
\* frame from a further distinct transmitter leaves the dedup state unchanged
\* and is still counted in frames and bytes.
C6_UniqueCapped ==
    /\ [](g_accum.unique <= 24 /\ g_accum.macFill <= 24)
    /\ [][(g_accum.unique' < g_accum.unique) => (uiPc = "ra_unique")]_vars
    /\ []((cbPc = "cb_exit" /\ cbEntry.macFill = 24
             /\ ~Known(cbEntry, macHash(cbPkt.mac)))
          => /\ g_accum.unique = cbEntry.unique
             /\ g_accum.macFill = cbEntry.macFill
             /\ g_accum.macHashes = cbEntry.macHashes
             /\ g_accum.frames = cbEntry.frames + 1
             /\ g_accum.bytes = cbEntry.bytes + cbPkt.sig_len)

\* C6 witness: the 25th distinct transmitter of a window was recorded against a
\* full table
C6_Witness ==
    /\ cbPc = "cb_exit"
    /\ cbEntry.macFill = 24
    /\ cbEntry.unique = 24
    /\ ~Known(cbEntry, macHash(cbPkt.mac))
    /\ g_accum.frames = 25


\* C8: the active channel is always in 1..13, every scheduler transition moves
\* it from c to (c mod 13) + 1, and the channels are finalized in the order
\* 1, 2, ..., 13, 1, ...: each finalize writes the slot of the channel after
\* the last finalized one and no other slot, however late the tick arrives.
C8_RoundRobin ==
    /\ [](currentChannel \in 1 .. 13)
    /\ [][(uiPc = "hop_next" /\ uiPc' # "hop_next")
          => (currentChannel' = (currentChannel % 13) + 1)]_vars
    /\ [][(currentChannel' # currentChannel) => (uiPc = "hop_next")]_vars
    /\ [][(uiPc = "fd_store" /\ uiPc' # "fd_store")
          => LET c == (lastFinal % 13) + 1
             IN  /\ currentChannel = c
                 /\ channels'[c].hasData
                 /\ \A d \in (1 .. 13) \ {c} : channels'[d] = channels[d]]_vars

\* C8 witness: the transition from channel 13 back to channel 1, on a tick that
\* arrived more than two dwell durations after the dwell began
C8_Witness ==
    /\ uiPc = "hop_next"
    /\ currentChannel = 13
    /\ lastFinal = 13
    /\ sinceDwell >= 2 * kDwellMs

\* C9: a scheduler transition happens on a tick if and only if the time
\* elapsed since dwellStartedMs was set is at least 260 ms, whether or not the
\* millisecond counter has wrapped in between.
C9_DwellThreshold ==
    [][(uiPc = "hop_check" /\ uiPc' # "hop_check")
       => ((uiPc' = "fd_enter") <=> (sinceDwell >= 260))]_vars

\* C9 witness: a transition at exactly 260 ms, the counter having wrapped past
\* zero since the dwell began
C9_Witness ==
    /\ uiPc = "fd_enter"
    /\ sinceDwell = 260
    /\ dwellStartedMs.hi = U16 - 1
    /\ now.hi = 0

\* C10: with the scheduler polled every 120 ms, the timestamp deltas between
\* successive channel switches of a 13-channel sweep sum to about 3.38 s
\* (13 x 260 ms; "about" read as the 3-4 s of the README), inside the 3-6 s
\* envelope.
C10_SweepTime ==
    (lastSweepMs # 0 /\ nLate = 0) => (3000 <= lastSweepMs /\ lastSweepMs <= 4000)

\* the last channel-set command failed: the radio is not on the active channel
SetFailed == radioChannel # currentChannel

\* C11: a failed channel-set command never halts the scheduler: applyChannel
\* sets dwellStartedMs to now whether the command succeeded or failed, and on
\* the ticks after a failed command the scheduler finalizes and hops exactly
\* when 260 ms have elapsed since then.
C11_FailedSetKeepsCadence ==
    /\ [][(uiPc = "ac_set" /\ uiPc' # "ac_set") => (dwellStartedMs' = now)]_vars
    /\ [][(uiPc = "hop_check" /\ uiPc' # "hop_check" /\ SetFailed)
          => ((uiPc' = "fd_enter") <=> (sinceDwell >= kDwellMs))]_vars

\* C11 witness: a finalize on the third tick after a hop whose channel-set
\* command failed
C11_Witness ==
    /\ uiPc = "fd_enter"
    /\ lastFinal >= 1
    /\ SetFailed
    /\ sinceDwell = 3 * kUiIntervalMs

\* C13: after a failed channel-set command the scheduler continues on the
\* previous channel assignment: the slot a finalize writes is the slot of the
\* channel the radio is tuned to.
C13_AttributedToTunedChannel ==
    (uiPc = "fd_store" /\ radioChannel # 0) => (currentChannel = radioChannel)

\* C12: a failed channel-set command is reported upward as a fault: once the
\* tick on which the radio's set-channel call failed has returned, a fault has
\* been logged or handed to the owning collaborator.
C12_FaultReported ==
    (uiPc = "idle" /\ SetFailed) => (faultLog # <<>>)

\* finishDwell is about to store a snapshot, or has just stored one
Storing == uiPc = "fd_store"

Stored == uiPc' # "fd_store"

\* C14: the score is exactly 0 whenever frameCount = 0, whatever the other
\* counters are: every channel finalized with a snapshot of zero frames holds
\* a raw score of 0.
C14_ZeroFramesZeroScore ==
    \A c \in Chans :
        (channels[c].hasData /\ channels[c].metrics.frames = 0)
            => (channels[c].busyCurrent = 0)

\* C15: the score lies in the closed range 0..100 for every input, however
\* large the counters; the same metrics always give the same score, whatever
\* the channel held before; and scoring changes no state but the slot of the
\* channel being finalized.
C15_ScoreInRange ==
    /\ [](\A c \in Chans : channels[c].busyCurrent \in 0 .. (100 * ScoreUnit))
    /\ [][(Storing /\ Stored) =>
            LET old == channels[currentChannel]
                new == channels'[currentChannel]
            IN  /\ new.busyCurrent \in 0 .. (100 * ScoreUnit)
                /\ (old.hasData /\ snap = old.metrics)
                      => (new.busyCurrent = old.busyCurrent)
                /\ \A d \in Chans \ {currentChannel} : channels'[d] = channels[d]
                /\ UNCHANGED <<g_accum, g_accumMux, currentChannel,
                               dwellStartedMs, disp>>]_vars

\* C15 witness: a snapshot with more strong frames than frames, whose
\* unclamped sum is above 1, was scored twice in a row and gave 100 both times
C15_Witness ==
    /\ uiPc = "idle"
    /\ channels[1].metrics.frames = 1
    /\ channels[1].metrics.strong = 65535
    /\ channels[1].busyCurrent = 100 * ScoreUnit
    /\ emaHist[1].n = 2
    /\ emaHist[1].run = 2

\* the strong-frame ratio of a is at most that of b (0 when frames = 0),
\* decided exactly; pairs whose products would not fit are not compared
RatioLeq(a, b) ==
    IF a.frames = 0 \/ a.strong = 0 THEN TRUE
    ELSE IF b.frames = 0 THEN FALSE
    ELSE IF a.frames = b.frames THEN a.strong <= b.strong
    ELSE IF a.frames < 32768 /\ b.frames < 32768
         THEN a.strong * b.frames <= b.strong * a.frames
         ELSE FALSE

\* b is at least a in frame rate, byte rate, strong-frame ratio and uniqueCount
\* (the dwell time being the same, the rates compare as the counters do)
NoLess(a, b) ==
    /\ a.frames <= b.frames
    /\ a.bytes <= b.bytes
    /\ a.unique <= b.unique
    /\ RatioLeq(a, b)

\* C16: the score is monotonically non-decreasing in frame rate, byte rate,
\* strong-frame ratio and uniqueCount: a snapshot that is at least the
\* channel's previous one in all four (hence also one that is larger in one of
\* them and equal in the others) never scores lower, and one that is at most
\* the previous one never scores higher.
C16_ScoreMonotone ==
    [][(Storing /\ Stored /\ channels[currentChannel].hasData) =>
         LET old == channels[currentChannel]
             new == channels'[currentChannel]
         IN  /\ NoLess(old.metrics, snap) => (new.busyCurrent >= old.busyCurrent)
             /\ NoLess(snap, old.metrics) => (new.busyCurrent <= old.busyCurrent)]_vars

\* C16 witness: the second snapshot of the channel differs from the first in
\* uniqueCount only, which is larger, and so is its score
C16_Witness ==
    /\ Storing
    /\ channels[currentChannel].hasData
    /\ snap.frames = channels[currentChannel].metrics.frames
    /\ snap.bytes = channels[currentChannel].metrics.bytes
    /\ snap.strong = channels[currentChannel].metrics.strong
    /\ snap.unique > channels[currentChannel].metrics.unique
    /\ computeBusyScore(snap) > channels[currentChannel].busyCurrent

\* C17: on a channel's first finalize the smoothed score is set to exactly
\* the raw score, with no blend with the initial 0, and hasData becomes true
\* in the same step; a channel finalized once holds equal raw and smoothed
\* scores.
C17_FirstFinalizeExact ==
    /\ [][(Storing /\ Stored /\ ~channels[currentChannel].hasData) =>
            /\ channels'[currentChannel].hasData
            /\ channels'[currentChannel].busyEma
                  = channels'[currentChannel].busyCurrent]_vars
    /\ [](\A c \in Chans :
            /\ channels[c].hasData <=> (emaHist[c].n >= 1)
            /\ (emaHist[c].n = 1) => (channels[c].busyEma = channels[c].busyCurrent))

\* C17 witness: a channel finalized once, with a raw score above 0
C17_Witness ==
    /\ uiPc = "idle"
    /\ emaHist[1].n = 1
    /\ channels[1].hasData
    /\ channels[1].busyCurrent > 0
    /\ channels[1].busyEma = channels[1].busyCurrent

Min2(a, b) == IF a <= b THEN a ELSE b

Max2(a, b) == IF a >= b THEN a ELSE b

\* C18: on every finalize of a channel after its first the smoothed score
\* becomes 0.78 * old smoothed + 0.22 * new raw (to the resolution of the
\* fixed point), the smoothed score changes in no other step, it lies between
\* the old smoothed value and the new raw value, and it stays in 0..100.
C18_EmaBlend ==
    /\ [][(Storing /\ Stored /\ channels[currentChannel].hasData) =>
            LET old == channels[currentChannel].busyEma
                raw == channels'[currentChannel].busyCurrent
                new == channels'[currentChannel].busyEma
            IN  /\ 100 * new <= (78 * old) + (22 * raw)
                /\ (78 * old) + (22 * raw) < (100 * new) + 100
                /\ Min2(old, raw) <= new
                /\ new <= Max2(old, raw)]_vars
    /\ [][(\E c \in Chans : channels'[c].busyEma # channels[c].busyEma)
          => (Storing /\ emaHist'[currentChannel].n = emaHist[currentChannel].n + 1)]_vars
    /\ [](\A c \in Chans : channels[c].busyEma \in 0 .. (100 * ScoreUnit))

\* C18 witness: the second finalize of a channel raised its smoothed score to
\* a value strictly between the old smoothed score and the new raw score
C18_Witness ==
    /\ uiPc = "idle"
    /\ emaHist[1].n = 2
    /\ emaHist[1].run = 1
    /\ emaHist[1].start > 0
    /\ emaHist[1].start < channels[1].busyEma
    /\ channels[1].busyEma < channels[1].busyCurrent

Abs(x) == IF x < 0 THEN -x ELSE x

\* C19 as stated: after 10 consecutive windows with the same raw score R > 0
\* the smoothed score is within 0.1 * R of R, from any smoothed value the
\* channel held before.
C19_WithinTenthOfR ==
    \A c \in Chans :
        (emaHist[c].run >= 10 /\ channels[c].busyCurrent > 0)
            => (10 * Abs(channels[c].busyEma - channels[c].busyCurrent)
                   < channels[c].busyCurrent)

\* C19 amended: after 10 consecutive windows with the same raw score R the
\* error of the smoothed score is at most a tenth of the distance between R
\* and the smoothed value S the channel held before those windows, up to the
\* rounding of the arithmetic (0.05 score points).
C19_WithinTenthOfStart ==
    \A c \in Chans :
        (emaHist[c].run >= 10)
            => (10 * Abs(channels[c].busyEma - channels[c].busyCurrent)
                   <= Abs(emaHist[c].start - channels[c].busyCurrent) + 50)

\* C19 witness: a channel at 100 was fed ten light windows in a row
C19_Witness ==
    /\ uiPc = "idle"
    /\ emaHist[1].n = 11
    /\ emaHist[1].run = 10
    /\ emaHist[1].start = 100 * ScoreUnit
    /\ channels[1].busyCurrent > 0
    /\ channels[1].busyCurrent < 30 * ScoreUnit
    /\ channels[1].busyEma > channels[1].busyCurrent

\* C20: raw counters are never smoothed: a finalize stores exactly the
\* snapshot of the window in the channel's slot, and the stored counters of a
\* channel change in no other step than a finalize of that channel.
C20_CountersExact ==
    /\ [][(Storing /\ Stored) => (channels'[currentChannel].metrics = snap)]_vars
    /\ [][\A c \in Chans :
            (channels'[c].metrics # channels[c].metrics)
                => (Storing /\ c = currentChannel)]_vars

\* C20 witness: a channel finalized twice holds the counters of its second
\* window while its smoothed score differs from the raw score of that window
C20_Witness ==
    /\ uiPc = "idle"
    /\ emaHist[1].n = 2
    /\ channels[1].metrics = [frames |-> 1, bytes |-> 3000, strong |-> 1, unique |-> 24]
    /\ channels[1].busyEma # channels[1].busyCurrent

\* refreshUi has ranked the channels as they are now: what it shows (disp)
\* was computed from the present contents of channels
Shown == uiPc \in {"rf_enter", "rf_frames", "rf_bytes", "rf_strong", "rf_unique",
                   "rf_exit", "rf_show", "idle"}

\* the channels that have data
WithData == {c \in Chans : channels[c].hasData}

\* the channels of the top-3 list shown (entry e is channel e + 1)
Listed == {disp.top[q] + 1 : q \in {r \in 1 .. 3 : disp.top[r] # -1}}

\* the smoothed score of the channel at position q of the list shown
TopEma(q) == channels[disp.top[q] + 1].busyEma

\* C21: hasData of a channel is false until the channel's first finalize and
\* true from then on, never reverting; a channel without data is not in the
\* top-3 list, and with no channel having data the global activity is 0 and
\* the list is empty.
C21_HasDataGate ==
    /\ [](\A c \in Chans : channels[c].hasData <=> (emaHist[c].n > 0))
    /\ [][\A c \in Chans : channels[c].hasData => channels'[c].hasData]_vars
    /\ [](Shown => (Listed \subseteq WithData))
    /\ []((Shown /\ WithData = {})
             => (disp.global = 0 /\ disp.top = <<-1, -1, -1>>))

\* C21 witness: a silent channel with data is listed, while the channels
\* without data, whose stored score is the same 0, are not
C21_Witness ==
    /\ uiPc = "idle"
    /\ WithData = {1}
    /\ channels[1].busyEma = 0
    /\ disp.top = <<0, -1, -1>>

\* C22: the global activity is 0 when no channel has data, and otherwise the
\* maximum smoothed score over exactly the channels with data.
C22_GlobalIsMax ==
    Shown =>
        IF WithData = {} THEN disp.global = 0
        ELSE /\ \E c \in WithData : disp.global = channels[c].busyEma
             /\ \A c \in WithData : disp.global >= channels[c].busyEma

\* C22 witness: the maximum is held by channel 1 alone, three later channels
\* with data are below it
C22_Witness ==
    /\ uiPc = "idle"
    /\ Cardinality(WithData) = 4
    /\ disp.global = channels[1].busyEma
    /\ \A c \in WithData \ {1} : channels[c].busyEma < channels[1].busyEma

\* C23: the top-3 list has at most 3 entries, all of them distinct channels
\* with data, in descending order of smoothed score, no channel left out
\* scoring higher than a listed one; with fewer than 3 channels with data the
\* remaining positions are empty (-1).
C23_TopThree ==
    Shown =>
        /\ \A q \in 1 .. 3 : disp.top[q] \in (-1 .. (kChannelCount - 1))
        /\ Listed \subseteq WithData
        /\ \A q \in 1 .. 3 :
              (disp.top[q] # -1) <=> (q <= Cardinality(WithData))
        /\ \A q, r \in 1 .. 3 :
              (q < r /\ disp.top[r] # -1)
                 => (disp.top[q] # disp.top[r] /\ TopEma(q) >= TopEma(r))
        /\ \A c \in WithData \ Listed :
              \A q \in 1 .. 3 : channels[c].busyEma <= TopEma(q)

\* C23 witness: two channels with data, the later one scoring higher, are
\* listed in descending order and the third position is empty
C23_Witness ==
    /\ uiPc = "idle"
    /\ WithData = {1, 2}
    /\ channels[2].busyEma > channels[1].busyEma
    /\ channels[1].busyEma > 0
    /\ disp.top = <<1, 0, -1>>

\* C24: ties are broken by lower channel number: of two listed channels with
\* equal smoothed score the lower-numbered one is ahead, and a channel left
\* out whose score equals that of a listed one has a higher number than it.
C24_TieBreak ==
    Shown =>
        /\ \A q, r \in 1 .. 3 :
              (q < r /\ disp.top[r] # -1 /\ TopEma(q) = TopEma(r))
                 => (disp.top[q] < disp.top[r])
        /\ \A c \in WithData \ Listed :
              \A q \in 1 .. 3 :
                 (channels[c].busyEma = TopEma(q)) => (disp.top[q] + 1 < c)

\* C24 witness: channels 3 and 4 tie for the last position behind channels 1
\* and 2, which tie for the first; channel 3 is kept and channel 1 leads
C24_Witness ==
    /\ uiPc = "idle"
    /\ WithData = {1, 2, 3, 4}
    /\ channels[1].busyEma = channels[2].busyEma
    /\ channels[3].busyEma = channels[4].busyEma
    /\ channels[3].busyEma > 0
    /\ channels[1].busyEma > channels[3].busyEma
    /\ disp.top = <<0, 1, 2>>

\* C25: the global activity agrees with the ranking: whenever a channel has
\* data, the global activity is the smoothed score of the first entry of the
\* top-3 list.
C25_GlobalIsTopFirst ==
    (Shown /\ WithData # {}) =>
        (disp.top[1] # -1 /\ disp.global = TopEma(1))

\* C25 witness: one busy channel among silent ones is ranked first and the
\* global activity is its smoothed score
C25_Witness ==
    /\ uiPc = "idle"
    /\ Cardinality(WithData) = 5
    /\ channels[3].busyEma = 100 * ScoreUnit
    /\ \A c \in WithData \ {3} : channels[c].busyEma = 0
    /\ disp.top[1] = 2
    /\ disp.global = 100 * ScoreUnit

\* C26: the dwell wait is polled, not slept: on a tick on which the dwell time
\* has not elapsed hopIfNeeded returns at once to uiTimerCb, which goes on to
\* refreshUi, at the same millisecond; the step leaves the active channel,
\* dwellStartedMs, every channel's slot and the accumulator unchanged.  These
\* change only in the steps of a transition or of the boot, a transition is
\* entered only from a tick on which the dwell time has elapsed, and the
\* clock moves only while the consumer is idle.
C26_DwellPolled ==
    /\ [][(uiPc = "hop_check" /\ uiPc' # "hop_check" /\ sinceDwell < kDwellMs)
          => /\ uiPc' = "rf_rank"
             /\ uiRet' = <<"idle">>
             /\ UNCHANGED <<currentChannel, dwellStartedMs, radioChannel, channels,
                            g_accum, g_accumMux, now>>]_vars
    /\ [][(currentChannel' # currentChannel \/ dwellStartedMs' # dwellStartedMs
             \/ channels' # channels)
          => (uiPc \in {"ew_chan", "fd_store", "hop_next", "ac_set"})]_vars
    /\ [][(uiPc' = "fd_enter" /\ uiPc # "fd_enter")
          => (uiPc = "hop_check" /\ sinceDwell >= kDwellMs)]_vars
    /\ [][(g_accum' # g_accum)
          => (CbInCritical \/ uiPc \in {"ra_frames", "ra_bytes", "ra_strong",
                                        "ra_unique", "ra_fill", "ra_hashes"})]_vars
    /\ [][(now' # now) => (uiPc = "idle")]_vars

\* C26 witness: on the first tick, 120 ms into the dwell, hopIfNeeded has
\* returned to refreshUi with a frame in the accumulator
C26_Witness ==
    /\ uiPc = "rf_rank"
    /\ uiRet = <<"idle">>
    /\ sinceDwell = kUiIntervalMs
    /\ nAdv = 1
    /\ g_accum.frames >= 1
    /\ currentChannel = 1


----------------------------------------------------------------------------
(* BleWatch properties.                                                    *)

\* a step in which updateLedAndUi ran (from Blewatch_Init or from the timer)
BleUpdated == bleTimer' = "wait" /\ bleTimer # "wait"

\* the devices of the table seen within kDeviceStaleMs of now
BleActive ==
    {i \in 1..BleSlots : g_devices[i].used /\ IsFresh(g_devices[i], bleNow)}

\* the strongest RSSI among them (kNoRssi if there is none)
BestActiveRssi ==
    IF BleActive = {} THEN kNoRssi
    ELSE CHOOSE r \in {g_devices[i].lastRssi : i \in BleActive} :
            \A i \in BleActive : g_devices[i].lastRssi <= r

\* the five RSSI ranges of the proximity table
BandsOf(rssi) ==
    {b \in {"FAR", "TOO FAR", "NEAR", "CLOSE", "VERY CLOSE"} :
        \/ b = "FAR" /\ rssi < -80
        \/ b = "TOO FAR" /\ -80 <= rssi /\ rssi < -67
        \/ b = "NEAR" /\ -67 <= rssi /\ rssi < -50
        \/ b = "CLOSE" /\ -50 <= rssi /\ rssi < -40
        \/ b = "VERY CLOSE" /\ rssi >= -40}

\* the bar values the table allows in a band
BarOk(band, bar) ==
    CASE band \in {"FAR", "TOO FAR"} -> bar = 0
      [] band = "NEAR" -> 0 <= bar /\ bar <= 70
      [] band = "CLOSE" -> 70 <= bar /\ bar <= 100
      [] band = "VERY CLOSE" -> bar = 100

\* C27: the proximity state is a function of the best active RSSI: FAR when
\* no device is active or the RSSI is below -80, TOO FAR from -80 to below
\* -67, NEAR from -67 to below -50, CLOSE from -50 to below -40, VERY CLOSE
\* from -40 on.  Every RSSI of an int8_t lies in exactly one of the five
\* ranges, and the bar is 0 in FAR and TOO FAR, within 0..70 in NEAR, within
\* 70..100 in CLOSE and 100 in VERY CLOSE.  Checked on every update against
\* the table the update read, and (once, at the first update) for the band
\* and bar computation over every RSSI.
C27_ProximityBands ==
    [][BleUpdated =>
         /\ bleUi'.state = (IF BleActive = {} THEN "FAR"
                            ELSE CHOOSE b \in BandsOf(BestActiveRssi) : TRUE)
         /\ BarOk(bleUi'.state, bleUi'.bar)
         /\ bleTimer = "off" => \A rssi \in -128..127 :
               /\ Cardinality(BandsOf(rssi)) = 1
               /\ BandsOf(rssi) = {BleBand(1, rssi)}
               /\ BleBand(0, rssi) = "FAR"
               /\ BarOk("NEAR", BarValue(0, kNearBarSpan, rssiToNearT(rssi),
                                         kCloseStartRssiDbm - kNearStartRssiDbm))
               /\ BarOk("CLOSE", BarValue(kNearBarSpan, kCloseBarSpan,
                                          rssiToCloseT(rssi),
                                          kVeryCloseRssiDbm - kCloseStartRssiDbm))
      ]_allVars

\* two active devices, the weaker one tracked and shown: the state is that
\* of the stronger one's band all the same, and the bar is full
C27_Witness ==
    /\ bleTimer = "wait"
    /\ bleUi.state = "VERY CLOSE" /\ bleUi.bar = 100
    /\ BleActive = {1, 2}
    /\ g_devices[1].lastRssi = -40 /\ g_devices[2].lastRssi = -30
    /\ bleUi.nameText = g_devices[1].mac

\* the slots of the active devices whose address is the tracked one
LockedActive == {i \in BleActive : g_devices[i].mac = g_veryCloseMac}

\* the tracked device is active and in the VERY CLOSE range
LockedVeryClose ==
    \E i \in LockedActive : g_devices[i].lastRssi >= -40

\* C28: while the tracked device is still active and VERY CLOSE (RSSI >= -40),
\* an update shows another device only if another active device is 10 dB or
\* more stronger than the tracked one; if the tracked device has dropped below
\* -40 or gone stale (or none is tracked), the update shows the RSSI of the
\* strongest active device, and in VERY CLOSE its address.
C28_StickySelection ==
    [][BleUpdated =>
         /\ (LockedVeryClose /\ bleUi'.nameText # g_veryCloseMac)
               => \E i \in LockedActive, j \in BleActive :
                     g_devices[j].lastRssi - g_devices[i].lastRssi >= 10
         /\ (~LockedVeryClose /\ BleActive # {})
               => /\ bleUi'.rssi = BestActiveRssi
                  /\ bleUi'.state = "VERY CLOSE"
                        => \E j \in BleActive :
                              /\ g_devices[j].lastRssi = BestActiveRssi
                              /\ g_devices[j].mac = bleUi'.nameText
      ]_allVars

\* the first device has been shown as VERY CLOSE for two seconds and is kept
\* at -40 while the second, just seen at -30, is 10 dB stronger
C28_Witness ==
    /\ bleTimer = "wait"
    /\ g_veryCloseMac = g_devices[1].mac /\ bleUi.nameText = g_devices[1].mac
    /\ vcRunMs >= 2000
    /\ g_devices[1].lastRssi = -40 /\ g_devices[1].lastSeenMs = U32(0, 2000)
    /\ g_devices[2].used /\ g_devices[2].lastRssi = -30
    /\ g_devices[2].lastSeenMs = U32(0, 2000)

\* the update shows a vulnerability verdict: a red or green name label, a red
\* LED or the green blink
VerdictShown ==
    /\ bleUi.state = "VERY CLOSE"
    /\ \/ bleUi.nameColor \in {"red", "green"}
       \/ bleUi.led \in {"RED", "GREEN"}

\* C29: a verdict is shown for a device only after every update of the last
\* 3000 ms has shown that device as VERY CLOSE; until then the label is cyan
\* and the LED is steady blue.  Time the device spent VERY CLOSE before it
\* left the range does not count: vcRunMs restarts with the first update that
\* shows the device VERY CLOSE again.
C29_VerdictAfterContinuousDwell ==
    (bleUi.state = "VERY CLOSE" /\ vcRunMs < 3000)
        => (~VerdictShown /\ bleUi.nameColor = "cyan" /\ bleUi.led = "BLUE")

\* the tracked device has been shown as VERY CLOSE by every update since its
\* lock-on, for at least ms milliseconds
SteadyFor(ms) == bleUi.state = "VERY CLOSE" /\ lockSteady /\ vcRunMs >= ms

\* C30: in VERY CLOSE, for a device of a flagged vendor the LED is steady red
\* once the 3-second check has run; for any other device the LED blinks green
\* exactly twice and then stays steady blue; the blink plays once per lock-on
\* and is not replayed while the same device remains VERY CLOSE.
C30_BlinkOncePerLockOn ==
    /\ (SteadyFor(3000) /\ isOuiPotentiallyVulnerable(g_veryCloseMac))
          => bleUi.led = "RED"
    /\ (SteadyFor(0) /\ ~isOuiPotentiallyVulnerable(g_veryCloseMac))
          => /\ blinkOnsets <= 2
             /\ bleUi.led \in {"BLUE", "GREEN", "OFF"}
    /\ (SteadyFor(3600) /\ ~isOuiPotentiallyVulnerable(g_veryCloseMac))
          => (blinkOnsets = 2 /\ bleUi.led = "BLUE")

\* C31: the count an update shows is the number of distinct addresses sighted
\* within the last kDeviceStaleMs, in every history in which no more devices
\* than the table has slots are active at a time; the table never holds two
\* entries with the same address, and a sighting that finds no slot changes
\* nothing in it.
C31_CountMatchesSightings ==
    [][/\ BleUpdated => bleUi'.count = Cardinality(HeardActive')
       /\ \A i, j \in 1..BleSlots :
             g_devices'[i].used /\ g_devices'[j].used
                /\ g_devices'[i].mac = g_devices'[j].mac => i = j
       /\ Cardinality({i \in 1..BleSlots : g_devices'[i].used}) <= BleSlots
       /\ \A m \in bleSeenNow' \ bleSeenNow :
             (\A i \in 1..BleSlots : g_devices[i].used /\ g_devices[i].mac # m)
                => g_devices' = g_devices]_allVars

\* the channels on which the frames of a window were received
WindowChannels(w) == {q.channel : q \in DOMAIN w}

\* C32: every frame counted in the snapshot stored for channel c was received
\* while the radio was tuned to c.  The stores looked at are those made with
\* the radio on c (the command that set c succeeded), and a frame received
\* before the first command took effect is let pass: what is left are frames
\* received on the previous channel, between resetAccum and the command.
C32_SnapshotFramesFromChannel ==
    (uiPc = "fd_store" /\ radioChannel = currentChannel)
       => WindowChannels(gSnapWindow) \subseteq {0, currentChannel}

\* a step of promiscuousCb: its invocation (with a frame it counts or with one
\* it returns on at once) or one of its statements
CbStep == cbPc' # cbPc \/ cbCalls' # cbCalls

\* C33: a promiscuousCb call, valid or not, leaves the active channel, the
\* dwell start timestamp and every channel's stored metrics, raw score,
\* smoothed score and hasData unchanged; it writes only the shared accumulator
\* (its dedup table included), and only while it holds the lock.
C33_RecordLeavesConsumerState ==
    [][CbStep =>
          /\ UNCHANGED <<currentChannel, dwellStartedMs, channels>>
          /\ UNCHANGED <<radioChannel, started, promiscuous, timerArmed, snap,
                         live, disp, uiPc, uiRet, now>>
          /\ (g_accum' # g_accum) => (g_accumMux = "cb" /\ g_accumMux' = "cb")]_vars

\* C33 witness: the callback has made its writes for a frame while a channel
\* holds a stored snapshot and another dwell is running
C33_Witness ==
    /\ cbPc = "cb_exit"
    /\ g_accumMux = "cb"
    /\ g_accum.frames >= 1
    /\ lastFinal >= 1
    /\ channels[lastFinal].hasData

\* C34: a finalize changes only the slot of the channel that was active: a
\* slot (metrics, raw score, smoothed score, hasData) is written only by the
\* store of finishDwell inside a scheduler transition, only for the active
\* channel and once per transition; and a slot is written once per sweep: the
\* channels up to the last finalized one have been written one time more than
\* the channels after it, and all equally often at the end of a sweep.
C34_OneSlotPerFinalize ==
    /\ [][\A c \in Chans :
             (channels'[c] # channels[c] \/ emaHist'[c] # emaHist[c])
                => /\ uiPc = "fd_store"
                   /\ Len(uiRet) >= 2 /\ uiRet[2] = "hop_next"
                   /\ c = currentChannel
                   /\ currentChannel' = currentChannel
                   /\ emaHist'[c].n = emaHist[c].n + 1]_vars
    /\ [](\A c, d \in Chans :
             c < d => emaHist[c].n - emaHist[d].n =
                         IF c <= lastFinal /\ lastFinal < d THEN 1 ELSE 0)

\* C34 witness: channel 1 has just been finalized for the second time, every
\* other channel once
C34_Witness ==
    /\ uiPc = "hop_next"
    /\ lastFinal = 1
    /\ emaHist[1].n = 2
    /\ \A c \in Chans \ {1} : emaHist[c].n = 1 /\ channels[c].hasData

InitCall == uiRet = <<"rf_rank", "idle">>

\* C36: monitor setup runs exactly once.  ensureWifiMonitor goes past its
\* started test only with started = FALSE, which it sets and nothing clears,
\* and that call is the one of Tamagotchi_Init: it sets the active channel to
\* 1, leaves resetAccum with the accumulator zeroed and sets dwellStartedMs to
\* millis().  A call with started = TRUE returns at once and changes nothing:
\* not the active channel, the dwell timer, the accumulator or the radio.
C36_SetupOnce ==
    /\ [][started => started']_vars
    /\ [][(uiPc' = "ew_chan" /\ uiPc # "ew_chan")
          => (uiPc = "ew_check" /\ ~started /\ started' /\ InitCall)]_vars
    /\ [][(uiPc = "ew_chan" /\ uiPc' # uiPc) => (currentChannel' = 1)]_vars
    /\ [][(uiPc = "ra_exit" /\ uiPc' # uiPc /\ lastFinal = 0)
          => (g_accum' = AccumZero /\ gWindow' = EmptyWindow)]_vars
    /\ [][(uiPc = "ac_set" /\ uiPc' # uiPc /\ lastFinal = 0)
          => (InitCall /\ currentChannel = 1 /\ dwellStartedMs' = now)]_vars
    /\ [][(uiPc = "ew_check" /\ uiPc' # uiPc /\ started)
          => /\ uiPc' = Head(uiRet)
             /\ uiRet' = Tail(uiRet)
             /\ UNCHANGED <<currentChannel, dwellStartedMs, sinceDwell,
                            radioChannel, g_accum, g_accumMux, gWindow, channels,
                            started, promiscuous, timerArmed, now>>]_vars

\* C36 witness: the call of a timer tick finds started set, in the middle of
\* a dwell window that has counted a frame
C36_Witness ==
    /\ uiPc = "ew_check"
    /\ started
    /\ uiRet = <<"hop_check", "rf_rank", "idle">>
    /\ g_accum.frames >= 1
    /\ sinceDwell = kUiIntervalMs
    /\ currentChannel = 2

\* C37: sortTop3 returns the true top three of the channel array as it is:
\* the indices it returns are pairwise distinct, as many of them are non-empty
\* as min(3, channels with data), and no channel with data that it leaves out
\* has a smoothed score strictly greater than one it returns.
C37_TrueTopThree ==
    LET out   == sortTop3(channels)
        full  == {q \in 1 .. 3 : out[q] # -1}
        given == {out[q] + 1 : q \in full}
    IN  /\ \A q, r \in full : (q # r) => (out[q] # out[r])
        /\ Cardinality(full) =
              (IF Cardinality(WithData) < 3 THEN Cardinality(WithData) ELSE 3)
        /\ given \subseteq WithData
        /\ \A c \in WithData \ given : \A d \in given :
              ~(channels[c].busyEma > channels[d].busyEma)

\* C37 witness: of five channels with data the fifth, the third and the first
\* are returned, in this order, and channels 2 and 4 are left out
C37_Witness ==
    /\ Cardinality(WithData) = 5
    /\ sortTop3(channels) = <<4, 2, 0>>
    /\ channels[5].busyEma > channels[3].busyEma
    /\ channels[3].busyEma > channels[1].busyEma

\* timer periods that take every channel through a finalize, from any point
\* of a dwell: kChannelCount dwell windows of three periods, and three more
SweepTicks == 3 * (kChannelCount + 1)

\* finalizes so far, all channels together (the channels take turns)
Finalizes == (kChannelCount * emaHist[kChannelCount].n) + (lastFinal % kChannelCount)

\* C38: the scheduler has no terminal state.  With the timer ticking and the
\* clock advancing, every state that has the ticks of a sweep ahead of it is
\* followed by kChannelCount further finalizes (a finalize takes three timer
\* periods, so no more than (LiveAdvances - SweepTicks) / 3 lie behind such a
\* state), and the channels are finalized in turn: every channel 1..13 is
\* finalized again, whatever the frame traffic and whether or not the
\* channel-set commands succeed.  Once channel 13 has been finalized for the
\* first time every channel has hasData = true.
C38_EveryChannelFinalizedAgain ==
    /\ (nAdv <= LiveAdvances - SweepTicks)
          ~> (Finalizes >= ((LiveAdvances - SweepTicks) \div 3) + kChannelCount)
    /\ [](3 * Finalizes <= nAdv)
    /\ [](\A c \in Chans :
             emaHist[c].n = emaHist[kChannelCount].n
                               + (IF c <= lastFinal % kChannelCount THEN 1 ELSE 0))
    /\ [](emaHist[kChannelCount].n >= 1 => \A c \in Chans : channels[c].hasData)

\* C38 witness: channel 2 is about to be finalized for the second time, with
\* the radio still on channel 1 because the command for channel 2 failed
C38_Witness ==
    /\ uiPc = "fd_store"
    /\ currentChannel = 2
    /\ emaHist[2].n = 1
    /\ emaHist[1].n = 2
    /\ radioChannel = 1
    /\ \A c \in Chans : channels[c].hasData


\* C39: a device sighted while countActiveDevicesAndBest is running is not
\* treated as stale: when the count that sampled its clock at line 203 scans
\* the table, every device sighted within the last kDeviceStaleMs is counted,
\* and the slot of every such device passes the test of line 215.
C39_SightingDuringCountIsActive ==
    [][(bleTimer = "count" /\ bleTimer' = "wait")
          => /\ bleUi'.count >= Cardinality(HeardActive')
             /\ \A i \in 1..BleSlots :
                   (g_devices[i].used /\ g_devices[i].mac \in HeardActive)
                      => IsFresh(g_devices[i], countNowMs)]_allVars

=========================================================================
